---- MODULE Spec2Model ----
(***************************************************************************)
(* A model of the analysis core of python-selenium-crawler                *)
(* (src/analysis/analyse.py) and of the consent heuristic of the crawler  *)
(* (src/crawler_src/crawl.py).                                            *)
(*                                                                         *)
(* A domain string is modelled by the sequence of its dot-separated       *)
(* labels: "a.b.c" is <<"a","b","c">>, the empty string is <<"">> (what    *)
(* "".split(".") gives), "a." is <<"a","">> and ".a" is <<"","a">>.  Two   *)
(* strings are equal exactly when their label sequences are.              *)
(***************************************************************************)
EXTENDS Integers, Sequences, FiniteSets, TLC

VARIABLES
    tracker_domains,  \* domain_in_blocklist: the index argument (a set of domains)
    domain_arg,       \* domain_in_blocklist: the domain argument as passed
    frame,            \* domain_in_blocklist: the running call (pc, domain, count, result)
    third_party_domains,  \* extract_tracker_domains_entities: the observed domains (a list)
    blocklist,            \* the domain -> entity dictionary read_blocklist returned
    blocklist_domains,    \* set(blocklist.keys())
    extract,              \* extract_tracker_domains_entities: the running call
    document,             \* read_blocklist: what json.load gave for the blocklist file
    loader,               \* read_blocklist: the running call (pc, cat, tracker_domains, exc)
    dataframe,            \* find_cookies_longest_lifespans: the rows (crawl_mode, cookies)
    mode_arg,             \* find_cookies_longest_lifespans: the mode argument
    number_arg,           \* find_cookies_longest_lifespans: the number argument
    clock,                \* the wall clock datetime.now() reads
    ranking,              \* find_cookies_longest_lifespans: the running call
    expires_call,         \* the Expires branch of find_cookies_longest_lifespans on one value
    accept_words,         \* allow_cookies: the lines of accept_words.txt
    consent,              \* allow_cookies: the running call
    records,              \* prevalence: the rows of the dataframe
    mode_param,           \* prevalence: the mode argument
    target,               \* prevalence: the target argument, a column
    prevalence_call,      \* prevalence and most_common(10) on its result: the running call
    pair_records,         \* top_ten_tracker_redirection_pairs: the rows of the dataframe
    pair_mode,            \* top_ten_tracker_redirection_pairs: the mode argument
    known_trackers,       \* top_ten_tracker_redirection_pairs: the tracker_domains argument
    pairs_call,           \* top_ten_tracker_redirection_pairs: the running call
    shared,               \* workers: the blocklist index and the visit records all calls are given
    workers,              \* workers: the call each worker is in, if any
    log,                  \* workers: the calls that have returned, in the order they did
    files,                \* write_data_to_dataframe: the JSON documents of ../crawl_data, in glob order
    batch                 \* write_data_to_dataframe: position in the loop, data, errors, printed lines

classifyVars == <<tracker_domains, domain_arg, frame>>

extractVars == <<third_party_domains, blocklist, blocklist_domains, extract>>

loaderVars == <<document, loader>>

cookieVars == <<dataframe, mode_arg, number_arg, clock, ranking>>

expiryVars == <<expires_call>>

\* the variables of the calls modelled further down
consentVars == <<accept_words, consent>>

prevalenceVars == <<records, mode_param, target, prevalence_call>>

pairsVars == <<pair_records, pair_mode, known_trackers, pairs_call>>

workerVars == <<shared, workers, log>>

batchVars == <<files, batch>>

otherVars == <<expiryVars, consentVars, prevalenceVars, pairsVars, workerVars, batchVars>>

\* what the actions of one call leave alone
exceptExpiry ==
    <<classifyVars, extractVars, loaderVars, cookieVars, consentVars, prevalenceVars,
      pairsVars, workerVars, batchVars>>

exceptConsent ==
    <<classifyVars, extractVars, loaderVars, cookieVars, expiryVars, prevalenceVars,
      pairsVars, workerVars, batchVars>>

exceptPrevalence ==
    <<classifyVars, extractVars, loaderVars, cookieVars, expiryVars, consentVars,
      pairsVars, workerVars, batchVars>>

exceptPairs ==
    <<classifyVars, extractVars, loaderVars, cookieVars, expiryVars, consentVars,
      prevalenceVars, workerVars, batchVars>>

exceptWorkers ==
    <<classifyVars, extractVars, loaderVars, cookieVars, expiryVars, consentVars,
      prevalenceVars, pairsVars, batchVars>>

exceptBatch ==
    <<classifyVars, extractVars, loaderVars, cookieVars, expiryVars, consentVars,
      prevalenceVars, pairsVars, workerVars>>

vars == <<classifyVars, extractVars, loaderVars, cookieVars, otherVars>>

(***************************************************************************)
(* Bounds of the model.                                                    *)
(***************************************************************************)
MaxLabels == 7

Labels == {"", "a"}

\* Python's None where a domain is expected: no string has no label at all
None == <<>>

EmptyString == <<"">>

RECURSIVE SeqsUpTo(_, _)
SeqsUpTo(S, n) ==
    IF n = 0 THEN {<<>>}
    ELSE LET shorter == SeqsUpTo(S, n - 1)
         IN  shorter \cup {Append(s, x) : s \in {t \in shorter : Len(t) = n - 1}, x \in S}

\* every string of 1..MaxLabels labels (the empty string included, as <<"">>)
Domains == SeqsUpTo(Labels, MaxLabels) \ {<<>>}

(***************************************************************************)
(* Python's string operations on label sequences.                          *)
(***************************************************************************)
\* ".".join(pieces): the join of no piece is the empty string
Join(pieces) ==
    IF pieces = <<>> THEN EmptyString ELSE pieces

\* domain.rsplit(".", maxsplit)[1:], as the labels that remain: rsplit cuts at
\* the last maxsplit dots, so the first piece is everything before them (one
\* label when the string has at most maxsplit dots) and [1:] drops that piece
RSplitTail(domain, maxsplit) ==
    LET n == Len(domain)
        first == IF n - 1 > maxsplit THEN n - maxsplit ELSE 1
    IN  SubSeq(domain, first + 1, n)

\* domain.split(".", 1): one piece when there is no dot, else the first label
\* and the remainder
Split1(domain) ==
    IF Len(domain) < 2 THEN <<domain>>
    ELSE <<SubSeq(domain, 1, 1), SubSeq(domain, 2, Len(domain))>>

(***************************************************************************)
(* domain_in_blocklist (analyse.py 47-80), one step per statement group.   *)
(***************************************************************************)
CheckLimit == 4

RSplitMax == 5

Returned(f, value) == [f EXCEPT !.pc = "returned", !.result = value]

Raised(f, exc) == [f EXCEPT !.pc = "raised", !.result = <<exc>>]

StartFrame(domain) ==
    [pc |-> "lookup", domain |-> domain, count |-> 0, result |-> <<>>]

\* line 62-63: if domain in tracker_domains: return domain, True
LookupStepMutNoExact(index, f) == [f EXCEPT !.pc = "collapse"]

LookupStep(index, f) ==
    IF f.domain \in index THEN Returned(f, <<f.domain, TRUE>>)
    ELSE [f EXCEPT !.pc = "collapse"]

\* line 68: domain = ".".join(domain.rsplit(".", 5)[1:])
CollapseMut6(domain) == Join(RSplitTail(domain, RSplitMax + 1))

Collapse(domain) == Join(RSplitTail(domain, RSplitMax))

\* line 68-69
CollapseStep(f) ==
    [f EXCEPT !.pc = "while", !.domain = Collapse(f.domain), !.count = 0]

\* line 78-79: except IndexError: return None, False
OnIndexErrorMutPropagate(f) == Raised(f, "IndexError")

OnIndexError(f) == Returned(f, <<None, FALSE>>)

\* line 76-79: try: domain = domain.split(".", 1)[1]
StripStepMutHead(f) ==
    LET pieces == Split1(f.domain)
    IN  IF Len(pieces) < 2 THEN OnIndexError(f)
        ELSE [f EXCEPT !.domain = pieces[1]]

StripStep(f) ==
    LET pieces == Split1(f.domain)
    IN  IF Len(pieces) < 2 THEN OnIndexError(f)
        ELSE [f EXCEPT !.domain = pieces[2]]

\* line 70-80: one evaluation of the while condition and, when it holds, one
\* pass through the loop body
WhileStep(index, f) ==
    IF f.domain = EmptyString THEN Returned(f, <<None, FALSE>>)
    ELSE LET g == [f EXCEPT !.count = f.count + 1]
         IN  IF g.count > CheckLimit THEN Returned(g, <<None, FALSE>>)
             ELSE IF g.domain \in index THEN Returned(g, <<g.domain, TRUE>>)
             ELSE StripStep(g)

Running(f) == f.pc \in {"lookup", "collapse", "while"}

Step(index, f) ==
    CASE f.pc = "lookup" -> LookupStep(index, f)
      [] f.pc = "collapse" -> CollapseStep(f)
      [] f.pc = "while" -> WhileStep(index, f)
      [] OTHER -> f

RECURSIVE RunFrame(_, _)
RunFrame(index, f) ==
    IF Running(f) THEN RunFrame(index, Step(index, f)) ELSE f

\* the whole call: the returned pair, or <<exception>> when it raises
domain_in_blocklist(index, domain) ==
    RunFrame(index, StartFrame(domain)).result

(***************************************************************************)
(* The classifier run step by step on one domain and one index.            *)
(***************************************************************************)
\* the whole-label suffixes of d: d after k = 0 .. Len(d)-1 strips
Suffix(d, k) == SubSeq(d, k + 1, Len(d))

Suffixes(d) == {Suffix(d, k) : k \in 0..(Len(d) - 1)}

\* The call reads the index only through membership tests of whole-label
\* suffixes of its argument, so the index is drawn from those.  Blocklist
\* entries are domain names: the empty string is never one.
ClassifyStart ==
    /\ domain_arg \in Domains
    /\ tracker_domains \in SUBSET (Suffixes(domain_arg) \ {EmptyString})
    /\ frame = StartFrame(domain_arg)

\* the parts of the program a specification does not run stay as they are
ClassifyIdle ==
    /\ domain_arg = EmptyString
    /\ tracker_domains = {}
    /\ frame = [pc |-> "idle", domain |-> EmptyString, count |-> 0, result |-> <<>>]

ExtractIdle ==
    /\ third_party_domains = <<>>
    /\ blocklist = <<>>
    /\ blocklist_domains = {}
    /\ extract = [pc |-> "idle"]

LoaderIdle ==
    /\ document = <<>>
    /\ loader = [pc |-> "idle"]

ExpiryIdle == expires_call = [pc |-> "idle"]

ConsentIdle ==
    /\ accept_words = <<>>
    /\ consent = [pc |-> "idle"]

PrevalenceIdle ==
    /\ records = <<>>
    /\ mode_param = ""
    /\ target = ""
    /\ prevalence_call = [pc |-> "idle"]

PairsIdle ==
    /\ pair_records = <<>>
    /\ pair_mode = ""
    /\ known_trackers = {}
    /\ pairs_call = [pc |-> "idle"]

WorkersIdle ==
    /\ shared = <<>>
    /\ workers = <<>>
    /\ log = <<>>

BatchIdle ==
    /\ files = <<>>
    /\ batch = [pc |-> "idle"]

OthersIdle ==
    ExpiryIdle /\ ConsentIdle /\ PrevalenceIdle /\ PairsIdle /\ WorkersIdle /\ BatchIdle

CookiesIdle ==
    /\ dataframe = <<>>
    /\ mode_arg = ""
    /\ number_arg = 0
    /\ clock = [year |-> 1, month |-> 1, day |-> 1, hour |-> 0, minute |-> 0, second |-> 0]
    /\ ranking = [pc |-> "idle"]

InitClassify ==
    /\ ClassifyStart
    /\ ExtractIdle
    /\ LoaderIdle
    /\ CookiesIdle
    /\ OthersIdle

Lookup ==
    /\ frame.pc = "lookup"
    /\ frame' = LookupStep(tracker_domains, frame)
    /\ UNCHANGED <<tracker_domains, domain_arg, extractVars, loaderVars, cookieVars, otherVars>>

CollapseDomain ==
    /\ frame.pc = "collapse"
    /\ frame' = CollapseStep(frame)
    /\ UNCHANGED <<tracker_domains, domain_arg, extractVars, loaderVars, cookieVars, otherVars>>

WhileLoop ==
    /\ frame.pc = "while"
    /\ frame' = WhileStep(tracker_domains, frame)
    /\ UNCHANGED <<tracker_domains, domain_arg, extractVars, loaderVars, cookieVars, otherVars>>

NextClassify == Lookup \/ CollapseDomain \/ WhileLoop

SpecClassify == InitClassify /\ [][NextClassify]_vars

(***************************************************************************)
(* Claims about domain_in_blocklist, checked under SpecClassify.           *)
(***************************************************************************)
Min(S) == CHOOSE x \in S : \A y \in S : x <= y

\* the numbers of strips after which a member of the index is reached
MemberStrips(index, d) == {k \in 0..(Len(d) - 1) : Suffix(d, k) \in index}

\* C1 as stated: when the first member of the index reached by stripping
\* leftmost labels is reached after k <= 4 strips the result is (that member,
\* True), and when it is reached only after k > 4 strips it is (None, False),
\* for every label count.
C1_StripsAtMostFour ==
    frame.pc = "returned" =>
        LET ks == MemberStrips(tracker_domains, domain_arg)
        IN  ks # {} =>
                IF Min(ks) <= 4
                THEN frame.result = <<Suffix(domain_arg, Min(ks)), TRUE>>
                ELSE frame.result = <<None, FALSE>>

\* the strips the loop looks at: the collapse to the last five labels makes
\* the first one n - 5 for n >= 6 labels (one strip otherwise), and four
\* suffixes are looked at from there
WindowStrips(index, d) ==
    LET n == Len(d)
        c == IF n > 5 THEN n - 5 ELSE 1
    IN  {k \in c..(c + 3) : k <= n - 1 /\ Suffix(d, k) \in index}

\* C1 amended: a member domain is returned as it is; otherwise the result is
\* the first member among the suffixes reached after c, c+1, c+2, c+3 strips,
\* c = max(1, n - 5), and (None, False) when there is none.
C1_WindowOfFour ==
    frame.pc = "returned" =>
        LET ks == WindowStrips(tracker_domains, domain_arg)
        IN  frame.result =
                IF domain_arg \in tracker_domains THEN <<domain_arg, TRUE>>
                ELSE IF ks = {} THEN <<None, FALSE>>
                ELSE <<Suffix(domain_arg, Min(ks)), TRUE>>

\* a domain of 7 or more labels matched on the suffix reached after 5 strips
C1_Witness ==
    /\ frame.pc = "returned"
    /\ Len(domain_arg) >= 7
    /\ frame.result = <<Suffix(domain_arg, 5), TRUE>>

\* C2: a domain that is itself a member of the index is returned as
\* (domain, True), whatever its label count and whatever shorter suffixes of
\* it are members too.
C2_ExactMember ==
    (~Running(frame) /\ domain_arg \in tracker_domains) =>
        frame.result = <<domain_arg, TRUE>>

\* a member of 6 or more labels with a shorter suffix in the index as well
C2_Witness ==
    /\ frame.pc = "returned"
    /\ Len(domain_arg) >= 6
    /\ domain_arg \in tracker_domains
    /\ \E k \in 1..(Len(domain_arg) - 1) : Suffix(domain_arg, k) \in tracker_domains
    /\ frame.result = <<domain_arg, TRUE>>

\* what is left of the call, at most: it decreases with every step
Measure(f) ==
    CASE f.pc = "lookup" -> CheckLimit + 3
      [] f.pc = "collapse" -> CheckLimit + 2
      [] f.pc = "while" -> CheckLimit + 1 - f.count
      [] OTHER -> 0

\* C3: the call never raises, whatever the string (empty, without dots, with
\* leading, trailing or consecutive dots); it always ends with a result: a
\* running call can take a step and every step decreases a measure that is
\* never negative; and an empty or dot-free string that is not in the index
\* gives (None, False).
C3_NeverRaises ==
    /\ [](frame.pc # "raised")
    /\ [](Running(frame) => ENABLED NextClassify)
    /\ [](Measure(frame) >= 0)
    /\ [][Measure(frame') < Measure(frame)]_vars
    /\ []((~Running(frame) /\ Len(domain_arg) = 1 /\ domain_arg \notin tracker_domains)
            => frame.result = <<None, FALSE>>)

\* a string with a leading, a trailing and consecutive dots went through the
\* loop up to the failing split and the call returned
C3_Witness ==
    /\ frame.pc = "returned"
    /\ frame.count >= 1
    /\ \E i \in 1..(Len(domain_arg) - 1) : domain_arg[i] = "" /\ domain_arg[i + 1] = ""
    /\ domain_arg[1] = ""
    /\ domain_arg[Len(domain_arg)] = "a"
    /\ frame.domain = <<"a">>
    /\ frame.result = <<None, FALSE>>

(***************************************************************************)
(* extract_tracker_domains_entities (analyse.py 83-110).                   *)
(***************************************************************************)
MaxThirdParty == 2

Entities == {"E1", "E2"}

\* the domains the blocklist may list
BlocklistPool == {<<"a">>, <<"b">>, <<"b", "a">>, <<"a", "b">>}

\* the domains a visit may have observed: the empty string, domains of one
\* to three labels and one of seven
ObservedPool ==
    {EmptyString, <<"a">>, <<"b">>, <<"a", "b">>, <<"b", "a">>, <<"b", "b">>,
     <<"a", "b", "a">>, <<"a", "a", "b">>,
     <<"b", "a", "a", "a", "a", "b", "a">>}

Range(seq) == {seq[i] : i \in 1..Len(seq)}

\* Python's truth value of a string or None, as filter(None, ...) tests it
Truthy(x) == x # None /\ x # EmptyString

\* line 104: list(filter(None, [domain_in_blocklist(blocklist_domains, d)[0] for d in ...]))
MatchedDomainsMutObserved(observed, index) ==
    LET IsTracker(d) == domain_in_blocklist(index, d)[2]
    IN  SelectSeq(observed, IsTracker)

MatchedDomains(observed, index) ==
    SelectSeq([i \in 1..Len(observed) |-> domain_in_blocklist(index, observed[i])[1]],
              Truthy)

\* line 107: {domain for domain in third_party_domains if domain_in_blocklist(...)[1]}
TrackerDomainsMutExact(observed, index) ==
    {d \in Range(observed) : d \in index}

TrackerDomainsMutMatched(observed, index) ==
    {domain_in_blocklist(index, d)[1] :
        d \in {x \in Range(observed) : domain_in_blocklist(index, x)[2]}}

TrackerDomains(observed, index) ==
    {d \in Range(observed) : domain_in_blocklist(index, d)[2]}

\* line 108: {blocklist[domain] for domain in domains}; a key the dictionary
\* lacks raises KeyError
TrackerEntities(dict, domains) ==
    IF \E i \in 1..Len(domains) : domains[i] \notin DOMAIN dict
    THEN [raised |-> TRUE, value |-> "KeyError"]
    ELSE [raised |-> FALSE, value |-> {dict[domains[i]] : i \in 1..Len(domains)}]

ExtractStart ==
    /\ \E keys \in SUBSET BlocklistPool : blocklist \in [keys -> Entities]
    /\ blocklist_domains = DOMAIN blocklist
    /\ third_party_domains \in
            {s \in SeqsUpTo(ObservedPool, MaxThirdParty) :
                \A i, j \in 1..Len(s) : i # j => s[i] # s[j]}
    /\ extract = [pc |-> "line104"]

InitExtract ==
    /\ ClassifyIdle
    /\ ExtractStart
    /\ LoaderIdle
    /\ CookiesIdle
    /\ OthersIdle

\* line 104
ExtractMatched ==
    /\ extract.pc = "line104"
    /\ extract' = [pc |-> "line107",
                   domains |-> MatchedDomains(third_party_domains, blocklist_domains)]
    /\ UNCHANGED <<classifyVars, third_party_domains, blocklist, blocklist_domains, loaderVars, cookieVars, otherVars>>

\* line 107
ExtractTrackerDomains ==
    /\ extract.pc = "line107"
    /\ extract' = [pc |-> "line108",
                   domains |-> extract.domains,
                   tracker_domains |-> TrackerDomains(third_party_domains, blocklist_domains)]
    /\ UNCHANGED <<classifyVars, third_party_domains, blocklist, blocklist_domains, loaderVars, cookieVars, otherVars>>

\* line 108-110
ExtractEntities ==
    /\ extract.pc = "line108"
    /\ LET e == TrackerEntities(blocklist, extract.domains)
       IN  extract' = [pc |-> IF e.raised THEN "raised" ELSE "returned",
                       domains |-> extract.domains,
                       tracker_domains |-> extract.tracker_domains,
                       tracker_entities |-> e.value]
    /\ UNCHANGED <<classifyVars, third_party_domains, blocklist, blocklist_domains, loaderVars, cookieVars, otherVars>>

NextExtract == ExtractMatched \/ ExtractTrackerDomains \/ ExtractEntities

SpecExtract == InitExtract /\ [][NextExtract]_vars

(***************************************************************************)
(* Claims about extract_tracker_domains_entities, checked under            *)
(* SpecExtract.                                                            *)
(***************************************************************************)
\* the classification of one observed domain against the visit's index
Classified(d) == domain_in_blocklist(blocklist_domains, d)

\* C4: every classification has isTracker = (matchedSuffix is not None), and
\* an observed domain is in tracker_domains exactly when its matched suffix is
\* among the matched domains the entities are looked up for, with that
\* suffix's entity in tracker_entities.
C4_TrackerIffEntity ==
    /\ \A d \in Range(third_party_domains) :
            /\ Len(Classified(d)) = 2
            /\ Classified(d)[2] = (Classified(d)[1] # None)
    /\ extract.pc = "returned" =>
            \A d \in Range(third_party_domains) :
                d \in extract.tracker_domains <=>
                    /\ Classified(d)[1] \in Range(extract.domains)
                    /\ Classified(d)[1] \in DOMAIN blocklist
                    /\ blocklist[Classified(d)[1]] \in extract.tracker_entities

\* one observed domain is a tracker through a suffix and one is not
C4_Witness ==
    /\ extract.pc = "returned"
    /\ \E d \in Range(third_party_domains) :
            d \in extract.tracker_domains /\ Classified(d)[1] # d
    /\ \E d \in Range(third_party_domains) : d \notin extract.tracker_domains

\* C5: tracker_entities is exactly the set of the entities of the matched
\* suffixes of the observed domains that classify as trackers (a set: each
\* entity once).
C5_EntitiesOfMatchedSuffixes ==
    extract.pc \in {"returned", "raised"} =>
        /\ extract.pc = "returned"
        /\ extract.tracker_entities =
                {blocklist[Classified(d)[1]] :
                    d \in {o \in Range(third_party_domains) : Classified(o)[2]}}

\* two observed trackers with different matched suffixes and one entity
C5_Witness ==
    /\ extract.pc = "returned"
    /\ Cardinality(extract.tracker_entities) = 1
    /\ \E d, e \in extract.tracker_domains :
            /\ Classified(d)[1] # Classified(e)[1]
            /\ blocklist[Classified(d)[1]] = blocklist[Classified(e)[1]]

(***************************************************************************)
(* JSON values as json.load gives them: a dict keeps its keys in document  *)
(* order.  items holds a list's elements or a dict's <<key, value>> pairs, *)
(* text a string's (or number's) text.                                     *)
(***************************************************************************)
Str(t) == [kind |-> "str", text |-> t, items |-> <<>>]

Num(t) == [kind |-> "num", text |-> t, items |-> <<>>]

List(elements) == [kind |-> "list", text |-> "", items |-> elements]

Dict(pairs) == [kind |-> "dict", text |-> "", items |-> pairs]

\* the characters of the strings the documents and the cookies hold
Chars(t) ==
    CASE t = "true" ->
            <<"t", "r", "u", "e">>
      [] t = "x" ->
            <<"x">>
      [] t = "d1" ->
            <<"d", "1">>
      [] t = "d2" ->
            <<"d", "2">>
      [] t = "0" ->
            <<"0">>
      [] t = "3600" ->
            <<"3", "6", "0", "0">>
      [] t = "86400" ->
            <<"8", "6", "4", "0", "0">>
      [] t = "Session" ->
            <<"S", "e", "s", "s", "i", "o", "n">>
      [] t = "Wed, 21 Oct 2099 07:28:00 GMT" ->
            <<"W", "e", "d", ",", " ", "2", "1", " ", "O", "c", "t", " ",
            "2", "0", "9", "9", " ", "0", "7", ":", "2", "8", ":", "0",
            "0", " ", "G", "M", "T">>
      [] t = "Wed, 21-Oct-99 07:28:00 GMT" ->
            <<"W", "e", "d", ",", " ", "2", "1", "-", "O", "c", "t", "-",
            "9", "9", " ", "0", "7", ":", "2", "8", ":", "0", "0", " ",
            "G", "M", "T">>
      [] t = "Wednesday, 21-Oct-2099 07:28:00 GMT" ->
            <<"W", "e", "d", "n", "e", "s", "d", "a", "y", ",", " ", "2",
            "1", "-", "O", "c", "t", "-", "2", "0", "9", "9", " ", "0",
            "7", ":", "2", "8", ":", "0", "0", " ", "G", "M", "T">>
      [] t = "2099-10-21T07:28:00.000Z" ->
            <<"2", "0", "9", "9", "-", "1", "0", "-", "2", "1", "T", "0",
            "7", ":", "2", "8", ":", "0", "0", ".", "0", "0", "0", "Z">>
      [] OTHER -> <<>>

\* for x in v: the elements of a list, the keys of a dict, the characters of
\* a string; anything else is not iterable (TypeError)
Iterable(v) == v.kind \in {"list", "dict", "str"}

IterSeq(v) ==
    CASE v.kind = "list" -> v.items
      [] v.kind = "dict" -> [i \in 1..Len(v.items) |-> Str(v.items[i][1])]
      [] v.kind = "str" -> [i \in 1..Len(Chars(v.text)) |-> Str(Chars(v.text)[i])]
      [] OTHER -> <<>>

\* v[key] of a dict
HasKey(v, key) == \E i \in 1..Len(v.items) : v.items[i][1] = key

Lookup_(v, key) == v.items[CHOOSE i \in 1..Len(v.items) : v.items[i][1] = key][2]

\* a dict or a list cannot be the key of a dict (TypeError: unhashable)
Hashable(v) == v.kind \in {"str", "num"}

RECURSIVE FoldSeq(_, _, _, _)
FoldSeq(Op(_, _), acc, seq, i) ==
    IF i > Len(seq) THEN acc ELSE FoldSeq(Op, Op(acc, seq[i]), seq, i + 1)

(***************************************************************************)
(* read_blocklist (analyse.py 22-44).  acc is the dictionary built so far  *)
(* and the exception that ended the call, if one did.                      *)
(***************************************************************************)
Raise(acc, exc) == IF acc.exc = "" THEN [acc EXCEPT !.exc = exc] ELSE acc

\* line 43: tracker_domains[domain] = entityname
Register(acc, entityname, domain) ==
    IF acc.exc # "" THEN acc
    ELSE IF ~Hashable(domain) THEN Raise(acc, "TypeError")
    ELSE [acc EXCEPT !.dict =
            [k \in DOMAIN acc.dict \cup {domain.text} |->
                IF k = domain.text THEN entityname ELSE acc.dict[k]]]

\* line 40-41: if url == "performance": continue
SkipUrlMutNever(url) == FALSE

SkipUrl(url) == url = "performance"

\* line 39-43: one (url, domains) pair of an entity
ReadUrl(acc, entityname, pair) ==
    IF acc.exc # "" THEN acc
    ELSE IF SkipUrl(pair[1]) THEN acc
    ELSE IF ~Iterable(pair[2]) THEN Raise(acc, "TypeError")
    ELSE FoldSeq(LAMBDA a, d : Register(a, entityname, d), acc, IterSeq(pair[2]), 1)

\* line 38-43: one (entityname, urls) pair of an item; urls.items() needs a dict
ReadEntity(acc, pair) ==
    IF acc.exc # "" THEN acc
    ELSE IF pair[2].kind # "dict" THEN Raise(acc, "AttributeError")
    ELSE FoldSeq(LAMBDA a, u : ReadUrl(a, pair[1], u), acc, pair[2].items, 1)

\* line 38: item.items() needs a dict
ReadItem(acc, item) ==
    IF acc.exc # "" THEN acc
    ELSE IF item.kind # "dict" THEN Raise(acc, "AttributeError")
    ELSE FoldSeq(ReadEntity, acc, item.items, 1)

\* line 37-43: for item in blocklist['categories'][cat]
ReadCategory(acc, category) ==
    IF ~Iterable(category) THEN Raise(acc, "TypeError")
    ELSE FoldSeq(ReadItem, acc, IterSeq(category), 1)

(***************************************************************************)
(* The blocklist documents of the model.                                   *)
(***************************************************************************)
MaxCats == 2

UrlKeys == {"u", "performance"}

\* what an entity holds under a key: a list of domains, or a scalar string
DomainsValues ==
    {List(<<Str("d1")>>), List(<<Str("d2"), Str("d1")>>), Str("true")}

UrlsValues ==
    {Dict(<<>>), Num("1")}
    \cup {Dict(<<<<k, v>>>>) : k \in UrlKeys, v \in DomainsValues}
    \cup {Dict(<<<<"u", v1>>, <<"performance", v2>>>>) :
            v1 \in DomainsValues, v2 \in DomainsValues}

ItemValues ==
    {Str("x")} \cup {Dict(<<<<e, u>>>>) : e \in Entities, u \in UrlsValues}

CategoryValues ==
    {List(<<>>), Num("1"), Str("x")} \cup {List(<<item>>) : item \in ItemValues}

CategoryName(i) == IF i = 1 THEN "c1" ELSE IF i = 2 THEN "c2" ELSE "c3"

Documents ==
    {Dict(<<>>), Dict(<<<<"categories", List(<<>>)>>>>)}
    \cup {Dict(<<<<"categories", Dict([i \in 1..Len(cats) |-> <<CategoryName(i), cats[i]>>])>>>>) :
            cats \in SeqsUpTo(CategoryValues, MaxCats)}

LoaderStart ==
    /\ document \in Documents
    /\ loader = [pc |-> "line36", cat |-> 1, tracker_domains |-> <<>>, exc |-> ""]

InitBlocklist ==
    /\ ClassifyIdle
    /\ ExtractIdle
    /\ LoaderStart
    /\ CookiesIdle
    /\ OthersIdle

\* line 34-36: tracker_domains = dict(); blocklist['categories'].keys()
OpenCategories ==
    /\ loader.pc = "line36"
    /\ loader' =
            IF ~HasKey(document, "categories")
            THEN [loader EXCEPT !.pc = "raised", !.exc = "KeyError"]
            ELSE IF Lookup_(document, "categories").kind # "dict"
            THEN [loader EXCEPT !.pc = "raised", !.exc = "AttributeError"]
            ELSE [loader EXCEPT !.pc = "line37", !.cat = 1]
    /\ UNCHANGED <<classifyVars, extractVars, document, cookieVars, otherVars>>

\* line 36-43: one pass of the loop over the categories
ReadNextCategory ==
    /\ loader.pc = "line37"
    /\ loader.cat <= Len(Lookup_(document, "categories").items)
    /\ LET cats == Lookup_(document, "categories")
           acc == ReadCategory([dict |-> loader.tracker_domains, exc |-> ""],
                               cats.items[loader.cat][2])
       IN  loader' =
               IF acc.exc # ""
               THEN [loader EXCEPT !.pc = "raised", !.exc = acc.exc,
                                   !.tracker_domains = acc.dict]
               ELSE [loader EXCEPT !.cat = loader.cat + 1, !.tracker_domains = acc.dict]
    /\ UNCHANGED <<classifyVars, extractVars, document, cookieVars, otherVars>>

\* line 44: return tracker_domains
ReturnIndex ==
    /\ loader.pc = "line37"
    /\ loader.cat > Len(Lookup_(document, "categories").items)
    /\ loader' = [loader EXCEPT !.pc = "returned"]
    /\ UNCHANGED <<classifyVars, extractVars, document, cookieVars, otherVars>>

NextBlocklist == OpenCategories \/ ReadNextCategory \/ ReturnIndex

SpecBlocklist == InitBlocklist /\ [][NextBlocklist]_vars

(***************************************************************************)
(* Claims about read_blocklist, checked under SpecBlocklist.               *)
(***************************************************************************)
ConcatMap(F(_), seq) == FoldSeq(LAMBDA a, x : a \o F(x), <<>>, seq, 1)

\* the domains a document lists, in document order, each with the entity and
\* the key it is listed under
UrlListings(entity, pair) ==
    IF pair[2].kind # "list" THEN <<>>
    ELSE [i \in 1..Len(pair[2].items) |->
            [entity |-> entity, url |-> pair[1], domain |-> pair[2].items[i].text]]

EntityListings(pair) ==
    IF pair[2].kind # "dict" THEN <<>>
    ELSE ConcatMap(LAMBDA u : UrlListings(pair[1], u), pair[2].items)

ItemListings(item) ==
    IF item.kind # "dict" THEN <<>> ELSE ConcatMap(EntityListings, item.items)

CategoryListings(pair) ==
    IF pair[2].kind # "list" THEN <<>> ELSE ConcatMap(ItemListings, pair[2].items)

DocListings(doc) ==
    IF HasKey(doc, "categories") /\ Lookup_(doc, "categories").kind = "dict"
    THEN ConcatMap(CategoryListings, Lookup_(doc, "categories").items)
    ELSE <<>>

Max(S) == CHOOSE x \in S : \A y \in S : x >= y

\* C6: in the mapping read_blocklist returns, every domain listed under a key
\* other than "performance" maps to the entity of the last entry that lists
\* it under such a key, in document order, and a domain listed under
\* "performance" keys only is not in the mapping.
C6_LastListingWins ==
    loader.pc = "returned" =>
        LET L == DocListings(document)
            index == loader.tracker_domains
            counted == {i \in 1..Len(L) : L[i].url # "performance"}
        IN  /\ \A i \in counted :
                    /\ L[i].domain \in DOMAIN index
                    /\ index[L[i].domain] =
                            L[Max({j \in counted : L[j].domain = L[i].domain})].entity
            /\ \A i \in (1..Len(L)) \ counted :
                    (\A j \in counted : L[j].domain # L[i].domain)
                        => L[i].domain \notin DOMAIN index

\* a domain listed under two entities, and another under "performance" only
C6_Witness ==
    /\ loader.pc = "returned"
    /\ LET L == DocListings(document)
           counted == {i \in 1..Len(L) : L[i].url # "performance"}
       IN  /\ \E i, j \in counted :
                    i < j /\ L[i].domain = L[j].domain /\ L[i].entity # L[j].entity
           /\ \E i \in (1..Len(L)) \ counted :
                    \A j \in counted : L[j].domain # L[i].domain

\* the structure section 6 gives the document: categories -> lists of
\* {entity: {key: [domain, ...]}}, a key other than "performance" holding a
\* list of strings
WellFormedUrls(urls) ==
    /\ urls.kind = "dict"
    /\ \A i \in 1..Len(urls.items) :
            urls.items[i][1] # "performance" =>
                /\ urls.items[i][2].kind = "list"
                /\ \A j \in 1..Len(urls.items[i][2].items) :
                        urls.items[i][2].items[j].kind = "str"

WellFormedCategory(category) ==
    /\ category.kind = "list"
    /\ \A i \in 1..Len(category.items) :
            /\ category.items[i].kind = "dict"
            /\ \A j \in 1..Len(category.items[i].items) :
                    WellFormedUrls(category.items[i].items[j][2])

WellFormed(doc) ==
    /\ HasKey(doc, "categories")
    /\ Lookup_(doc, "categories").kind = "dict"
    /\ \A i \in 1..Len(Lookup_(doc, "categories").items) :
            WellFormedCategory(Lookup_(doc, "categories").items[i][2])

\* C7: a malformed document ends read_blocklist in a loading error: the call
\* returns an index only for a well-formed document.
C7_MalformedNeverLoads ==
    loader.pc = "returned" => WellFormed(document)

(***************************************************************************)
(* Strings as sequences of characters, and datetime.strptime for the two   *)
(* formats find_cookies_longest_lifespans uses (analyse.py 778, 782).      *)
(***************************************************************************)
Digits == {"0", "1", "2", "3", "4", "5", "6", "7", "8", "9"}

DigitValue(c) ==
    CASE c = "0" -> 0 [] c = "1" -> 1 [] c = "2" -> 2 [] c = "3" -> 3
      [] c = "4" -> 4 [] c = "5" -> 5 [] c = "6" -> 6 [] c = "7" -> 7
      [] c = "8" -> 8 [] c = "9" -> 9 [] OTHER -> 0

AllDigits(cs) == \A i \in 1..Len(cs) : cs[i] \in Digits

RECURSIVE NumberOf(_)
NumberOf(cs) ==
    IF cs = <<>> THEN 0
    ELSE 10 * NumberOf(SubSeq(cs, 1, Len(cs) - 1)) + DigitValue(cs[Len(cs)])

\* str.replace(c, ""): the string without its characters c
Without(cs, c) == LET Keep(x) == x # c IN SelectSeq(cs, Keep)

\* the positions of character c in the string
PositionsOf(cs, c) == {i \in 1..Len(cs) : cs[i] = c}

\* the number of leading characters of cs, from position p, that are digits
RECURSIVE DigitRun(_, _)
DigitRun(cs, p) ==
    IF p <= Len(cs) /\ cs[p] \in Digits THEN 1 + DigitRun(cs, p + 1) ELSE 0

\* strptime matches names whatever their case
LowerCase(c) ==
    CASE c = "W" -> "w" [] c = "O" -> "o" [] c = "M" -> "m" [] c = "T" -> "t"
      [] c = "F" -> "f" [] c = "S" -> "s" [] c = "J" -> "j" [] c = "A" -> "a"
      [] c = "D" -> "d" [] c = "N" -> "n" [] OTHER -> c

Lowered(cs) == [i \in 1..Len(cs) |-> LowerCase(cs[i])]

\* %a: the abbreviated weekday names
WeekdayNames ==
    {<<"m", "o", "n">>, <<"t", "u", "e">>, <<"w", "e", "d">>, <<"t", "h", "u">>,
     <<"f", "r", "i">>, <<"s", "a", "t">>, <<"s", "u", "n">>}

\* %b: the abbreviated month names
MonthNames ==
    <<(<<"j", "a", "n">>), (<<"f", "e", "b">>), (<<"m", "a", "r">>), (<<"a", "p", "r">>),
      (<<"m", "a", "y">>), (<<"j", "u", "n">>), (<<"j", "u", "l">>), (<<"a", "u", "g">>),
      (<<"s", "e", "p">>), (<<"o", "c", "t">>), (<<"n", "o", "v">>), (<<"d", "e", "c">>)>>

IsLeap(year) == year % 4 = 0 /\ (year % 100 # 0 \/ year % 400 = 0)

DaysInMonth(year, month) ==
    IF month = 2 THEN (IF IsLeap(year) THEN 29 ELSE 28)
    ELSE IF month \in {4, 6, 9, 11} THEN 30 ELSE 31

RECURSIVE DaysBeforeMonth(_, _)
DaysBeforeMonth(year, month) ==
    IF month <= 1 THEN 0
    ELSE DaysBeforeMonth(year, month - 1) + DaysInMonth(year, month - 1)

\* datetime.toordinal
Ordinal(dt) ==
    LET y == dt.year - 1
    IN  365 * y + (y \div 4) - (y \div 100) + (y \div 400)
        + DaysBeforeMonth(dt.year, dt.month) + dt.day

\* A number of seconds, as the days and the seconds of day it is made of
\* (what timedelta holds): the value is days * 86400 + seconds, with
\* 0 <= seconds < 86400, so that a span of a century stays within the
\* integers of the checker.
SecondsPerDay == 86400

Duration(n) == [days |-> n \div SecondsPerDay, seconds |-> n % SecondsPerDay]

SecondOfDay(dt) == dt.hour * 3600 + dt.minute * 60 + dt.second

\* (a - b).total_seconds() of two naive datetimes
TotalSeconds(a, b) ==
    LET d == Duration(SecondOfDay(a) - SecondOfDay(b))
    IN  [days |-> Ordinal(a) - Ordinal(b) + d.days, seconds |-> d.seconds]

\* the order of the numbers two durations stand for
DurationLess(x, y) ==
    x.days < y.days \/ (x.days = y.days /\ x.seconds < y.seconds)

\* %y: 69-99 are 1969-1999, 0-68 are 2000-2068
CenturyOf(yy) == IF yy >= 69 THEN 1900 + yy ELSE 2000 + yy

ParseError == [ok |-> FALSE]

\* datetime.strptime(cs, '%a,%d%b%Y%H:%M:%S') with yearDigits = 4 and
\* datetime.strptime(cs, '%a,%d%b%y%H:%M:%S') with yearDigits = 2: the whole
\* string has to match; %d, %H, %M and %S take one or two digits, %Y four,
\* %y two.  ParseError stands for the ValueError.
Strptime(cs, yearDigits) ==
    LET low == Lowered(cs)
        dayLen == DigitRun(cs, 5)
        monthAt == 5 + dayLen
        yearAt == monthAt + 3
        runLen == DigitRun(cs, yearAt)
        hourLen == runLen - yearDigits
        minuteAt == yearAt + runLen + 1
        minuteLen == DigitRun(cs, minuteAt)
        secondAt == minuteAt + minuteLen + 1
        secondLen == DigitRun(cs, secondAt)
    IN  IF  /\ Len(cs) >= 4
            /\ SubSeq(low, 1, 3) \in WeekdayNames
            /\ cs[4] = ","
            /\ dayLen \in {1, 2}
            /\ Len(cs) >= monthAt + 2
            /\ \E m \in 1..12 : MonthNames[m] = SubSeq(low, monthAt, monthAt + 2)
            /\ hourLen \in {1, 2}
            /\ Len(cs) >= minuteAt
            /\ cs[minuteAt - 1] = ":"
            /\ minuteLen \in {1, 2}
            /\ Len(cs) >= secondAt
            /\ cs[secondAt - 1] = ":"
            /\ secondLen \in {1, 2}
            /\ Len(cs) = secondAt + secondLen - 1
        THEN LET year == NumberOf(SubSeq(cs, yearAt, yearAt + yearDigits - 1))
                 dt == [year |-> IF yearDigits = 2 THEN CenturyOf(year) ELSE year,
                        month |-> CHOOSE m \in 1..12 :
                                    MonthNames[m] = SubSeq(low, monthAt, monthAt + 2),
                        day |-> NumberOf(SubSeq(cs, 5, monthAt - 1)),
                        hour |-> NumberOf(SubSeq(cs, yearAt + yearDigits, minuteAt - 2)),
                        minute |-> NumberOf(SubSeq(cs, minuteAt, secondAt - 2)),
                        second |-> NumberOf(SubSeq(cs, secondAt, Len(cs)))]
             IN  IF  /\ dt.year >= 1
                     /\ dt.day >= 1
                     /\ dt.day <= DaysInMonth(dt.year, dt.month)
                     /\ dt.hour <= 23
                     /\ dt.minute <= 59
                     /\ dt.second <= 59
                 THEN [ok |-> TRUE, value |-> dt]
                 ELSE ParseError
        ELSE ParseError

\* datetime.now().strftime(...) parsed back with the same format: whole
\* seconds; with %y the year goes through two digits
NowRoundTrip(now, yearDigits) ==
    IF yearDigits = 2 THEN [now EXCEPT !.year = CenturyOf(now.year % 100)] ELSE now

(***************************************************************************)
(* find_cookies_longest_lifespans (analyse.py 733-792).  A cookie is the   *)
(* JSON dict of its attributes; a lifespan is a Duration.                  *)
(***************************************************************************)
NoneValue == [kind |-> "null", text |-> "", items |-> <<>>]

\* dict.get(key)
Get(v, key) == IF HasKey(v, key) THEN Lookup_(v, key) ELSE NoneValue

\* Python's truth value of a JSON value
TruthyValue(v) ==
    CASE v.kind = "null" -> FALSE
      [] v.kind = "str" -> v.text # ""
      [] v.kind = "num" -> v.text # "0"
      [] OTHER -> v.items # <<>>

\* float(max_age) of an attribute string: the strings of digits are read as
\* their number, any other string of the model raises ValueError
Float(v) ==
    IF Chars(v.text) # <<>> /\ AllDigits(Chars(v.text))
    THEN [ok |-> TRUE, value |-> Duration(NumberOf(Chars(v.text)))]
    ELSE [ok |-> FALSE]

\* line 767-775: the Expires string made ready for strptime; the unpacking
\* of split(",") raises ValueError unless there is exactly one comma
NormalizeExpires(raw) ==
    LET stripped == Without(Without(raw, "-"), " ")
        commas == PositionsOf(stripped, ",")
        comma == CHOOSE c \in commas : TRUE
        day == SubSeq(stripped, 1, comma - 1)
        rest == SubSeq(stripped, comma + 1, Len(stripped))
        short == IF Len(stripped) >= 24
                 THEN SubSeq(day, 1, 3) \o <<",">> \o rest
                 ELSE stripped
    IN  IF Len(stripped) >= 24 /\ Cardinality(commas) # 1 THEN [ok |-> FALSE]
        ELSE IF  /\ Len(short) \in 21..24
                 /\ ":" \notin {short[i] : i \in (Len(short) - 3)..Len(short)}
        THEN [ok |-> TRUE, value |-> SubSeq(short, 1, Len(short) - 4)]
        ELSE [ok |-> TRUE, value |-> short]

\* line 777-785: the four-digit-year format, then the two-digit-year one; a
\* ValueError of the second strptime is raised inside the except clause and
\* leaves the function
ExpiryAge(expiry, now) ==
    LET four == Strptime(expiry, 4)
        two == Strptime(expiry, 2)
    IN  IF four.ok
        THEN [ok |-> TRUE, value |-> TotalSeconds(four.value, NowRoundTrip(now, 4))]
        ELSE IF two.ok
        THEN [ok |-> TRUE, value |-> TotalSeconds(two.value, NowRoundTrip(now, 2))]
        ELSE [ok |-> FALSE]

\* line 765: expiry and expiry != "Session"
HasExpiryDateMutSession(expiry) == TruthyValue(expiry)

HasExpiryDate(expiry) == TruthyValue(expiry) /\ expiry.text # "Session"

NoLifespan == [kind |-> "none"]

RaiseValueError == [kind |-> "raise", exc |-> "ValueError"]

\* line 765-786: the lifespan the Expires attribute gives
ExpiresLifespan(expiry, now) ==
    LET normal == NormalizeExpires(Chars(expiry.text))
        age == ExpiryAge(normal.value, now)
    IN  IF ~normal.ok THEN RaiseValueError
        ELSE IF ~age.ok THEN RaiseValueError
        ELSE [kind |-> "entry", value |-> age.value, source |-> "expires"]

\* line 760-786: what one cookie adds to lifespans
CookieLifespanMutExpiresFirst(cookie_dict, now) ==
    LET max_age == Get(cookie_dict, "Max-Age")
        expiry == Get(cookie_dict, "Expires")
    IN  IF HasExpiryDate(expiry) THEN ExpiresLifespan(expiry, now)
        ELSE IF TruthyValue(max_age)
        THEN IF Float(max_age).ok
             THEN [kind |-> "entry", value |-> Float(max_age).value, source |-> "max-age"]
             ELSE RaiseValueError
        ELSE NoLifespan

CookieLifespan(cookie_dict, now) ==
    LET max_age == Get(cookie_dict, "Max-Age")
        expiry == Get(cookie_dict, "Expires")
    IN  IF TruthyValue(max_age)
        THEN IF Float(max_age).ok
             THEN [kind |-> "entry", value |-> Float(max_age).value, source |-> "max-age"]
             ELSE RaiseValueError
        ELSE IF HasExpiryDate(expiry) THEN ExpiresLifespan(expiry, now)
        ELSE NoLifespan

\* line 754: dataframe.loc[dataframe["crawl_mode"] == mode, "cookies"].reset_index(drop=True)
CookiesOfMode(frame_rows, mode) ==
    LET OfMode(row) == row.crawl_mode = mode
        rows == SelectSeq(frame_rows, OfMode)
    IN  [i \in 1..Len(rows) |-> rows[i].cookies]

\* line 757-759: the (i, j) the two loops visit, in order; i and j count from
\* 0 as enumerate does, and an entry that is not truthy is passed over
RECURSIVE CookiePositions(_, _)
CookiePositions(cookies_list, i) ==
    IF i >= Len(cookies_list) THEN <<>>
    ELSE (IF TruthyValue(cookies_list[i + 1])
          THEN [j \in 1..Len(IterSeq(cookies_list[i + 1])) |-> <<i, j - 1>>]
          ELSE <<>>)
         \o CookiePositions(cookies_list, i + 1)

\* cookies_list[i][j]
CookieAt(cookies_list, position) ==
    IterSeq(cookies_list[position[1] + 1])[position[2] + 1]

\* line 789: sorted(lifespans, key=itemgetter(0), reverse=True): descending,
\* entries of equal key in the order they had
RECURSIVE SortedDescendingMutTiesLast(_)
SortedDescendingMutTiesLast(entries) ==
    IF entries = <<>> THEN <<>>
    ELSE LET before == SortedDescendingMutTiesLast(SubSeq(entries, 1, Len(entries) - 1))
             last == entries[Len(entries)]
             ahead == {k \in 1..Len(before) : DurationLess(last[1], before[k][1])}
             n == IF ahead = {} THEN 0 ELSE Max(ahead)
         IN  SubSeq(before, 1, n) \o <<last>> \o SubSeq(before, n + 1, Len(before))

RECURSIVE SortedDescending(_)
SortedDescending(entries) ==
    IF entries = <<>> THEN <<>>
    ELSE LET before == SortedDescending(SubSeq(entries, 1, Len(entries) - 1))
             last == entries[Len(entries)]
             ahead == {k \in 1..Len(before) : ~DurationLess(before[k][1], last[1])}
             n == IF ahead = {} THEN 0 ELSE Max(ahead)
         IN  SubSeq(before, 1, n) \o <<last>> \o SubSeq(before, n + 1, Len(before))

TopCount == 3

\* line 789: [:3]
TopMutTwo(entries) ==
    SubSeq(entries, 1, IF Len(entries) < TopCount - 1 THEN Len(entries) ELSE TopCount - 1)

Top(entries) ==
    SubSeq(entries, 1, IF Len(entries) < TopCount THEN Len(entries) ELSE TopCount)

(***************************************************************************)
(* The cookies, the rows and the clock of the model.                       *)
(***************************************************************************)
MaxCookies == 2

Modes == {"Desktop", "Mobile"}

\* a cookie: its name and value first, then its attributes
Cookie(attributes) == Dict(<<<<"id", Str("x")>>>> \o attributes)

CookiePool ==
    {Cookie(<<>>),
     Cookie(<<<<"Max-Age", Str("86400")>>>>),
     Cookie(<<<<"Max-Age", Str("3600")>>, <<"Expires", Str("Wed, 21 Oct 2099 07:28:00 GMT")>>>>),
     Cookie(<<<<"Expires", Str("2099-10-21T07:28:00.000Z")>>, <<"Max-Age", Str("0")>>>>),
     Cookie(<<<<"Expires", Str("Session")>>>>),
     Cookie(<<<<"Expires", Str("Wed, 21 Oct 2099 07:28:00 GMT")>>>>),
     Cookie(<<<<"Expires", Str("Wed, 21-Oct-99 07:28:00 GMT")>>>>),
     Cookie(<<<<"Expires", Str("2099-10-21T07:28:00.000Z")>>>>)}

\* the modes of the two rows: one row of each mode, or both of the first
RowModes == {<<"Desktop", "Mobile">>, <<"Desktop", "Desktop">>}

\* two rows, the cookies of a sequence of at most MaxCookies dealt to them
Dataframes ==
    UNION {
        {<<[crawl_mode |-> m[1], cookies |-> List(SubSeq(cs, 1, cut))],
           [crawl_mode |-> m[2], cookies |-> List(SubSeq(cs, cut + 1, Len(cs)))]>> :
            cut \in 0..Len(cs), m \in RowModes} :
        cs \in SeqsUpTo(CookiePool, MaxCookies)}

\* the time the call starts at, and a time after every expiry date of the pool
StartInstant ==
    [year |-> 2026, month |-> 11, day |-> 3, hour |-> 12, minute |-> 0, second |-> 0]

Instants ==
    {StartInstant,
     [year |-> 2100, month |-> 1, day |-> 1, hour |-> 0, minute |-> 0, second |-> 0]}

\* the clock does not run backwards
NotBefore(later, earlier) ==
    ~DurationLess(TotalSeconds(later, earlier), Duration(0))

CookiesStart ==
    /\ dataframe \in Dataframes
    /\ mode_arg \in Modes
    /\ number_arg = 0
    /\ clock = StartInstant
    /\ ranking = [pc |-> "line754", cookies_list |-> <<>>, visited |-> 0,
                  lifespans |-> <<>>, exc |-> "", result |-> <<>>]

InitCookies ==
    /\ ClassifyIdle
    /\ ExtractIdle
    /\ LoaderIdle
    /\ CookiesStart
    /\ OthersIdle

\* line 754-755
SelectMode ==
    /\ ranking.pc = "line754"
    /\ ranking' = [ranking EXCEPT !.pc = "line757",
                                  !.cookies_list = CookiesOfMode(dataframe, mode_arg)]
    /\ UNCHANGED <<classifyVars, extractVars, loaderVars, otherVars, dataframe, mode_arg, number_arg, clock>>

\* line 757-786: the next cookie of the two loops, at whatever time it is by then
VisitCookie ==
    /\ ranking.pc = "line757"
    /\ ranking.visited < Len(CookiePositions(ranking.cookies_list, 0))
    /\ \E t \in Instants :
            /\ NotBefore(t, clock)
            /\ clock' = t
            /\ LET position == CookiePositions(ranking.cookies_list, 0)[ranking.visited + 1]
                   found == CookieLifespan(CookieAt(ranking.cookies_list, position), t)
               IN  ranking' =
                       CASE found.kind = "raise" ->
                                [ranking EXCEPT !.pc = "raised", !.exc = found.exc]
                         [] found.kind = "entry" ->
                                [ranking EXCEPT
                                    !.visited = ranking.visited + 1,
                                    !.lifespans = Append(ranking.lifespans,
                                        <<found.value, found.source, position[1], position[2]>>)]
                         [] OTHER -> [ranking EXCEPT !.visited = ranking.visited + 1]
    /\ UNCHANGED <<classifyVars, extractVars, loaderVars, otherVars, dataframe, mode_arg, number_arg>>

\* line 788-792: sort, keep three, return the cookie of rank number and the
\* source of its lifespan; a rank past the end raises IndexError.  number is
\* read here for the first time, so the rank asked for is drawn here.
PickLongest ==
    /\ ranking.pc = "line757"
    /\ ranking.visited = Len(CookiePositions(ranking.cookies_list, 0))
    /\ \E number \in 0..(TopCount - 1) :
            /\ number_arg' = number
            /\ LET longest_lifespans == Top(SortedDescending(ranking.lifespans))
               IN  ranking' =
                       IF number + 1 > Len(longest_lifespans)
                       THEN [ranking EXCEPT !.pc = "raised", !.exc = "IndexError"]
                       ELSE LET entry == longest_lifespans[number + 1]
                            IN  [ranking EXCEPT
                                    !.pc = "returned",
                                    !.result =
                                        <<CookieAt(ranking.cookies_list, <<entry[3], entry[4]>>),
                                          entry[2]>>]
    /\ UNCHANGED <<classifyVars, extractVars, loaderVars, otherVars, dataframe, mode_arg, clock>>

NextCookies == SelectMode \/ VisitCookie \/ PickLongest

SpecCookies == InitCookies /\ [][NextCookies]_vars

(***************************************************************************)
(* The claims about find_cookies_longest_lifespans.                        *)
(***************************************************************************)
\* the (i, j) of the cookies of the partition, in the order of the loops
Positions == CookiePositions(ranking.cookies_list, 0)

CookieOf(k) == CookieAt(ranking.cookies_list, Positions[k])

\* the entries of lifespans that carry the position of the k-th cookie
EntriesAt(k) ==
    {e \in 1..Len(ranking.lifespans) :
        /\ ranking.lifespans[e][3] = Positions[k][1]
        /\ ranking.lifespans[e][4] = Positions[k][2]}

\* the call has ended in ValueError at the k-th cookie
AbortedAt(k) ==
    /\ ranking.pc = "raised"
    /\ ranking.exc = "ValueError"
    /\ k = ranking.visited + 1

HasBoth(cookie) ==
    /\ HasKey(cookie, "Max-Age")
    /\ Float(Get(cookie, "Max-Age")).ok
    /\ HasKey(cookie, "Expires")

\* C8: a cookie that has a numeric Max-Age and an Expires attribute, whatever
\* the Expires value, gets exactly one entry in lifespans, it is the Max-Age
\* in seconds with the source "max-age", and its Expires value neither gives
\* the entry nor ends the call.
C8_MaxAgeOverridesExpires ==
    \A k \in 1..Len(Positions) :
        HasBoth(CookieOf(k)) =>
            /\ ~AbortedAt(k)
            /\ k <= ranking.visited =>
                    /\ Cardinality(EntriesAt(k)) = 1
                    /\ \A e \in EntriesAt(k) :
                            ranking.lifespans[e] =
                                <<Duration(NumberOf(Chars(Get(CookieOf(k), "Max-Age").text))),
                                  "max-age", Positions[k][1], Positions[k][2]>>

\* C8 witness: the call has returned after it visited a cookie with Max-Age
\* and a date in Expires and a cookie with Max-Age and an Expires value that
\* no format parses.
C8_Witness ==
    /\ ranking.pc = "returned"
    /\ \E k1, k2 \in 1..Len(Positions) :
            /\ HasBoth(CookieOf(k1))
            /\ HasBoth(CookieOf(k2))
            /\ ExpiresLifespan(Get(CookieOf(k1), "Expires"), clock).kind = "entry"
            /\ ExpiresLifespan(Get(CookieOf(k2), "Expires"), clock).kind = "raise"

\* neither the four-digit-year nor the two-digit-year format parses the
\* Expires value of a cookie without Max-Age
Unparseable(cookie) ==
    /\ ~TruthyValue(Get(cookie, "Max-Age"))
    /\ HasExpiryDate(Get(cookie, "Expires"))
    /\ LET normal == NormalizeExpires(Chars(Get(cookie, "Expires").text))
       IN  \/ ~normal.ok
           \/ ~Strptime(normal.value, 4).ok /\ ~Strptime(normal.value, 2).ok

\* C9: a cookie whose Expires value neither format parses is left out of the
\* ranking and the call goes on to the other cookies: it does not end in an
\* error at that cookie.
C9_UnparseableOnlyExcluded ==
    \A k \in 1..Len(Positions) :
        Unparseable(CookieOf(k)) =>
            /\ ~AbortedAt(k)
            /\ k <= ranking.visited => EntriesAt(k) = {}

\* no Max-Age, and no Expires or the literal "Session"
SessionCookie(cookie) ==
    /\ ~HasKey(cookie, "Max-Age")
    /\ \/ ~HasKey(cookie, "Expires")
       \/ Get(cookie, "Expires") = Str("Session")

\* C10: a cookie with no Max-Age and with no Expires or Expires = "Session"
\* is passed over: lifespans never holds an entry of its position, the call
\* does not end at it, and the entry the call picks is never its own.
C10_SessionCookieNotRanked ==
    /\ \A k \in 1..Len(Positions) :
            SessionCookie(CookieOf(k)) => EntriesAt(k) = {} /\ ~AbortedAt(k)
    /\ ranking.pc = "returned" =>
            LET entry == Top(SortedDescending(ranking.lifespans))[number_arg + 1]
            IN  /\ ~SessionCookie(CookieAt(ranking.cookies_list, <<entry[3], entry[4]>>))
                /\ ranking.result[2] = entry[2]

\* C10 witness: the call has returned a cookie after it visited a cookie whose
\* Expires is "Session" ahead of it.
C10_Witness ==
    /\ ranking.pc = "returned"
    /\ Len(Positions) >= 2
    /\ HasKey(CookieOf(1), "Expires")
    /\ SessionCookie(CookieOf(1))
    /\ ~SessionCookie(CookieOf(2))

(***************************************************************************)
(* The Expires branch (analyse.py 767-786) on the values of the            *)
(* abbreviated-weekday, four-digit-year format with a trailing GMT.        *)
(***************************************************************************)
DigitChar(n) ==
    CASE n = 0 -> "0" [] n = 1 -> "1" [] n = 2 -> "2" [] n = 3 -> "3"
      [] n = 4 -> "4" [] n = 5 -> "5" [] n = 6 -> "6" [] n = 7 -> "7"
      [] n = 8 -> "8" [] OTHER -> "9"

TwoDigits(n) == <<DigitChar((n \div 10) % 10), DigitChar(n % 10)>>

FourDigits(n) == TwoDigits(n \div 100) \o TwoDigits(n % 100)

MonthAbbreviation(m) ==
    CASE m = 1 -> <<"J", "a", "n">>
      [] m = 10 -> <<"O", "c", "t">>
      [] OTHER -> <<"D", "e", "c">>

\* the text a server sends for an instant: "Wed, 21 Oct 2099 07:28:00 GMT"
HttpDate(dt) ==
    <<"W", "e", "d", ",", " ">> \o TwoDigits(dt.day) \o <<" ">>
    \o MonthAbbreviation(dt.month) \o <<" ">> \o FourDigits(dt.year) \o <<" ">>
    \o TwoDigits(dt.hour) \o <<":">> \o TwoDigits(dt.minute) \o <<":">>
    \o TwoDigits(dt.second) \o <<" ", "G", "M", "T">>

\* expiry instants: a Wednesday, at several times of day
ExpiryInstants ==
    {[year |-> 2099, month |-> 10, day |-> 21, hour |-> h, minute |-> m, second |-> sec] :
        h \in {0, 7, 23}, m \in {0, 28, 59}, sec \in {0, 5, 30, 59}}

\* the times the clock may show: long before, on the day itself, after
NowInstants ==
    Instants
    \cup {[year |-> 2099, month |-> 10, day |-> 21, hour |-> 7, minute |-> 28, second |-> sec] :
            sec \in {0, 29, 58}}

ExpiryStart ==
    \E instant \in ExpiryInstants, current \in NowInstants :
        expires_call = [pc |-> "line767", instant |-> instant, current_time |-> current,
                        expiry |-> HttpDate(instant), age |-> Duration(0), exc |-> ""]

InitExpiry ==
    /\ ClassifyIdle
    /\ ExtractIdle
    /\ LoaderIdle
    /\ CookiesIdle
    /\ ExpiryStart
    /\ ConsentIdle
    /\ PrevalenceIdle
    /\ PairsIdle
    /\ WorkersIdle
    /\ BatchIdle

\* line 767-775
NormalizeExpiry ==
    /\ expires_call.pc = "line767"
    /\ LET normal == NormalizeExpires(expires_call.expiry)
       IN  expires_call' =
               IF normal.ok
               THEN [expires_call EXCEPT !.pc = "line777", !.expiry = normal.value]
               ELSE [expires_call EXCEPT !.pc = "raised", !.exc = "ValueError"]
    /\ UNCHANGED exceptExpiry

\* line 777-786
ParseExpiry ==
    /\ expires_call.pc = "line777"
    /\ LET age == ExpiryAge(expires_call.expiry, expires_call.current_time)
       IN  expires_call' =
               IF age.ok
               THEN [expires_call EXCEPT !.pc = "line786", !.age = age.value]
               ELSE [expires_call EXCEPT !.pc = "raised", !.exc = "ValueError"]
    /\ UNCHANGED exceptExpiry

NextExpiry == NormalizeExpiry \/ ParseExpiry

SpecExpiry == InitExpiry /\ [][NextExpiry]_vars

\* C11: for an Expires value of the abbreviated-weekday, four-digit-year
\* format with a trailing GMT, the branch does not raise, and the age it
\* computes is positive when the clock is before the expiry instant and
\* negative when the clock is after it.
C11_SignFollowsExpiry ==
    /\ expires_call.pc # "raised"
    /\ expires_call.pc = "line786" =>
            LET left == TotalSeconds(expires_call.instant, expires_call.current_time)
            IN  /\ DurationLess(Duration(0), left) => DurationLess(Duration(0), expires_call.age)
                /\ DurationLess(left, Duration(0)) => DurationLess(expires_call.age, Duration(0))

(***************************************************************************)
(* find_cookies_longest_lifespans on cookies that all parse, some of them  *)
(* with equal lifespans: the order of the ranking.                         *)
(***************************************************************************)
MaxRanked == 3

NamedCookie(name, attributes) == Dict(<<<<"id", Str(name)>>>> \o attributes)

RankedPool ==
    {NamedCookie("x", <<<<"Max-Age", Str("3600")>>>>),
     NamedCookie("y", <<<<"Max-Age", Str("3600")>>>>),
     NamedCookie("x", <<<<"Max-Age", Str("86400")>>>>),
     NamedCookie("y", <<<<"Expires", Str("Wed, 21 Oct 2099 07:28:00 GMT")>>>>),
     NamedCookie("x", <<<<"Expires", Str("Session")>>>>)}

RankedDataframes ==
    UNION {
        {<<[crawl_mode |-> m[1], cookies |-> List(SubSeq(cs, 1, cut))],
           [crawl_mode |-> m[2], cookies |-> List(SubSeq(cs, cut + 1, Len(cs)))]>> :
            cut \in 0..Len(cs), m \in RowModes} :
        cs \in SeqsUpTo(RankedPool, MaxRanked)}

RankingStart ==
    /\ dataframe \in RankedDataframes
    /\ mode_arg \in Modes
    /\ number_arg = 0
    /\ clock = StartInstant
    /\ ranking = [pc |-> "line754", cookies_list |-> <<>>, visited |-> 0,
                  lifespans |-> <<>>, exc |-> "", result |-> <<>>]

InitRanking ==
    /\ ClassifyIdle
    /\ ExtractIdle
    /\ LoaderIdle
    /\ RankingStart
    /\ OthersIdle

SpecRanking == InitRanking /\ [][NextCookies]_vars

\* the cookie has a lifespan: a Max-Age, or an Expires that is not "Session"
HasLifespan(cookie) ==
    TruthyValue(Get(cookie, "Max-Age")) \/ HasExpiryDate(Get(cookie, "Expires"))

\* entry e comes before entry f in the ranking: more seconds, or as many and
\* met earlier (website index first, then cookie index)
Precedes(e, f) ==
    \/ DurationLess(f[1], e[1])
    \/ /\ e[1] = f[1]
       /\ \/ e[3] < f[3]
          \/ e[3] = f[3] /\ e[4] < f[4]

\* the number of entries that come before entry e
RankOf(e) ==
    Cardinality({k \in 1..Len(ranking.lifespans) : Precedes(ranking.lifespans[k], e)})

\* C12: lifespans holds one entry for each cookie of the partition that has a
\* lifespan, in encounter order; the call returns for rank number the cookie
\* that exactly number entries precede in the order "more seconds first,
\* equal seconds in encounter order", with the source of its entry, and it
\* raises IndexError only when there is no entry of that rank.
C12_RankingOrder ==
    /\ ranking.exc # "ValueError"
    /\ LET ranked == {k \in 1..ranking.visited : HasLifespan(CookieOf(k))}
       IN  /\ Len(ranking.lifespans) = Cardinality(ranked)
           /\ \A k \in ranked :
                   LET e == ranking.lifespans[Cardinality({q \in ranked : q <= k})]
                   IN  <<e[3], e[4]>> = Positions[k]
    /\ ranking.pc = "returned" =>
            \E k \in 1..Len(ranking.lifespans) :
                LET e == ranking.lifespans[k]
                IN  /\ RankOf(e) = number_arg
                    /\ ranking.result =
                            <<CookieAt(ranking.cookies_list, <<e[3], e[4]>>), e[2]>>
    /\ ranking.pc = "raised" => number_arg >= Len(ranking.lifespans)

\* C12 witness: the call has returned the second of two cookies of equal
\* lifespan, which is another cookie than the first.
C12_Witness ==
    /\ ranking.pc = "returned"
    /\ \E k1, k2 \in 1..Len(ranking.lifespans) :
            LET e == ranking.lifespans[k1]
                f == ranking.lifespans[k2]
            IN  /\ k1 < k2
                /\ e[1] = f[1]
                /\ RankOf(f) = number_arg
                /\ CookieAt(ranking.cookies_list, <<e[3], e[4]>>)
                        # CookieAt(ranking.cookies_list, <<f[3], f[4]>>)
                /\ ranking.result[1] = CookieAt(ranking.cookies_list, <<f[3], f[4]>>)

(***************************************************************************)
(* allow_cookies (crawl.py 96-124).  The page and its driver are the       *)
(* environment: a probe gives an element, or times out, or fails in the    *)
(* lookup; a click goes through or raises.                                 *)
(***************************************************************************)
MaxWords == 3

Phrases == {"accept all", "agree"}

\* what WebDriverWait(...).until(...) may do (line 107-115)
ProbeOutcomes == {"element", "TimeoutException", "InvalidSelectorException"}

\* what allow_all_cookies.click() may do (line 121)
ClickOutcomes == {"clicked", "ElementClickInterceptedException"}

ConsentStart ==
    /\ accept_words \in SeqsUpTo(Phrases, MaxWords)
    /\ consent = [pc |-> "line104", word |-> 1, allow_all_cookies |-> 0,
                  probes |-> <<>>, clicks |-> <<>>, result |-> FALSE, exc |-> ""]

InitConsent ==
    /\ ClassifyIdle
    /\ ExtractIdle
    /\ LoaderIdle
    /\ CookiesIdle
    /\ ExpiryIdle
    /\ ConsentStart
    /\ PrevalenceIdle
    /\ PairsIdle
    /\ WorkersIdle
    /\ BatchIdle

\* line 106-122: the try statement has run for the word with this outcome;
\* except Exception passes over whatever the wait raised, and the element of
\* word k is written k (0 is None)
AfterProbeMutKeepGoing(call, outcome) ==
    [call EXCEPT !.probes = Append(call.probes, [word |-> call.word, outcome |-> outcome]),
                 !.word = call.word + 1]

AfterProbeMutRetry(call, outcome) ==
    IF outcome = "element"
    THEN [call EXCEPT !.probes = Append(call.probes, [word |-> call.word, outcome |-> outcome]),
                      !.allow_all_cookies = call.word,
                      !.pc = "line121"]
    ELSE IF outcome = "TimeoutException"
    THEN [call EXCEPT !.probes = Append(call.probes, [word |-> call.word, outcome |-> outcome])]
    ELSE [call EXCEPT !.probes = Append(call.probes, [word |-> call.word, outcome |-> outcome]),
                      !.word = call.word + 1]

AfterProbe(call, outcome) ==
    IF outcome = "element"
    THEN [call EXCEPT !.probes = Append(call.probes, [word |-> call.word, outcome |-> outcome]),
                      !.allow_all_cookies = call.word,
                      !.pc = "line121"]
    ELSE [call EXCEPT !.probes = Append(call.probes, [word |-> call.word, outcome |-> outcome]),
                      !.word = call.word + 1]

\* line 121-122: click is outside the try statement
AfterClick(call, outcome) ==
    IF outcome = "clicked"
    THEN [call EXCEPT !.clicks = Append(call.clicks, [element |-> call.allow_all_cookies,
                                                      outcome |-> outcome]),
                      !.pc = "returned", !.result = TRUE]
    ELSE [call EXCEPT !.clicks = Append(call.clicks, [element |-> call.allow_all_cookies,
                                                      outcome |-> outcome]),
                      !.pc = "raised", !.exc = outcome]

\* line 104-120: one pass of the loop up to the test of allow_all_cookies
Probe ==
    /\ consent.pc = "line104"
    /\ consent.word <= Len(accept_words)
    /\ \E outcome \in ProbeOutcomes : consent' = AfterProbe(consent, outcome)
    /\ UNCHANGED <<exceptConsent, accept_words>>

\* line 121-122
Click ==
    /\ consent.pc = "line121"
    /\ \E outcome \in ClickOutcomes : consent' = AfterClick(consent, outcome)
    /\ UNCHANGED <<exceptConsent, accept_words>>

\* line 124
ReturnFalse ==
    /\ consent.pc = "line104"
    /\ consent.word > Len(accept_words)
    /\ consent' = [consent EXCEPT !.pc = "returned", !.result = FALSE]
    /\ UNCHANGED <<exceptConsent, accept_words>>

NextConsent == Probe \/ Click \/ ReturnFalse

SpecConsent == InitConsent /\ [][NextConsent]_vars

\* the probes made so far that gave an element
Found == {i \in 1..Len(consent.probes) : consent.probes[i].outcome = "element"}

Ended == consent.pc \in {"returned", "raised"}

\* C13: the words are probed in list order, and once a probe gives an
\* element no further word is probed, that element is clicked and the call
\* returns True.
C13_FirstFoundClickedAndTrue ==
    /\ \A i \in 1..Len(consent.probes) : consent.probes[i].word = i
    /\ \A i \in Found : i = Len(consent.probes)
    /\ (Ended /\ Found # {}) =>
            /\ consent.pc = "returned"
            /\ consent.result = TRUE
            /\ Len(consent.clicks) = 1
            /\ consent.clicks[1].element = Len(consent.probes)

\* C14: no error of the driver leaves allow_cookies: a probe that ended in
\* an error is followed by the next word, an error of the click is not
\* raised to the caller, and the call ends with a boolean.
C14_NoErrorPropagates ==
    /\ consent.pc # "raised"
    /\ \A i \in 1..Len(consent.probes) :
            consent.probes[i].outcome # "element" => consent.word > i

\* C15: the call returns False exactly when every word was probed and no
\* probe gave an element, and then nothing was clicked; when it returns True
\* exactly one click was made.
C15_FalseIffNoneFound ==
    consent.pc = "returned" =>
        /\ consent.result = FALSE <=>
                /\ {consent.probes[i].word : i \in 1..Len(consent.probes)}
                        = 1..Len(accept_words)
                /\ Found = {}
        /\ consent.result = FALSE => consent.clicks = <<>>
        /\ consent.result = TRUE =>
                /\ Len(consent.clicks) = 1
                /\ consent.clicks[1].outcome = "clicked"

\* C15 witness: False is returned after two words or more were probed, one
\* of them timing out and one failing in the lookup.
C15_Witness ==
    /\ consent.pc = "returned"
    /\ consent.result = FALSE
    /\ \E i, j \in 1..Len(consent.probes) :
            /\ consent.probes[i].outcome = "TimeoutException"
            /\ consent.probes[j].outcome = "InvalidSelectorException"

(***************************************************************************)
(* prevalence (analyse.py 459-484) and the most_common(10) its callers     *)
(* take of the result (analyse.py 543-544, 557-558, 571-572).  A Counter   *)
(* is the sequence of its (key, count) items in insertion order.           *)
(***************************************************************************)
\* line 476: dataframe.loc[dataframe["crawl_mode"] == mode, target]
SeriesOfMutAllModes(rows, mode, column) ==
    [i \in 1..Len(rows) |-> rows[i][column]]

SeriesOf(rows, mode, column) ==
    LET OfMode(row) == row.crawl_mode = mode
        selected == SelectSeq(rows, OfMode)
    IN  [i \in 1..Len(selected) |-> selected[i][column]]

\* line 478 and 914: list(chain.from_iterable(series))
RECURSIVE Flatten(_)
Flatten(series) ==
    IF series = <<>> THEN <<>> ELSE Head(series) \o Flatten(Tail(series))

\* line 480 and 917: Counter(list)
RECURSIVE CounterOf(_)
CounterOf(list) ==
    IF list = <<>> THEN <<>>
    ELSE LET counted == CounterOf(SubSeq(list, 1, Len(list) - 1))
             key == list[Len(list)]
             at == {i \in 1..Len(counted) : counted[i][1] = key}
         IN  IF at = {} THEN Append(counted, <<key, 1>>)
             ELSE [i \in 1..Len(counted) |->
                     IF i \in at THEN <<key, counted[i][2] + 1>> ELSE counted[i]]

\* the items by count, largest first, items of equal count in the order
\* they have in the Counter
RECURSIVE ByCountMutTiesLast(_)
ByCountMutTiesLast(items) ==
    IF items = <<>> THEN <<>>
    ELSE LET before == ByCountMutTiesLast(SubSeq(items, 1, Len(items) - 1))
             last == items[Len(items)]
             ahead == {k \in 1..Len(before) : before[k][2] > last[2]}
             n == IF ahead = {} THEN 0 ELSE Max(ahead)
         IN  SubSeq(before, 1, n) \o <<last>> \o SubSeq(before, n + 1, Len(before))

RECURSIVE ByCount(_)
ByCount(items) ==
    IF items = <<>> THEN <<>>
    ELSE LET before == ByCount(SubSeq(items, 1, Len(items) - 1))
             last == items[Len(items)]
             ahead == {k \in 1..Len(before) : before[k][2] >= last[2]}
             n == IF ahead = {} THEN 0 ELSE Max(ahead)
         IN  SubSeq(before, 1, n) \o <<last>> \o SubSeq(before, n + 1, Len(before))

TopTen == 10

\* Counter.most_common(n): heapq.nlargest(n, items, key=count), which gives
\* what sorted(items, key=count, reverse=True)[:n] gives
MostCommon(counter, n) ==
    SubSeq(ByCount(counter), 1, IF Len(counter) < n THEN Len(counter) ELSE n)

(***************************************************************************)
(* The rows prevalence is run on.                                          *)
(***************************************************************************)
MaxRecords == 2

Keys == {"k1", "k2", "k3", "k4", "k5", "k6", "k7", "k8", "k9", "k10", "k11", "k12"}

Columns == {"third_party_domains", "tracker_entities"}

\* what a row may hold in third_party_domains: nothing, one key, two keys,
\* a key twice, eleven keys, and eleven keys in another order
DomainLists ==
    {<<>>,
     <<"k1">>,
     <<"k2", "k1">>,
     <<"k3", "k1", "k3">>,
     <<"k1", "k2", "k3", "k4", "k5", "k6", "k7", "k8", "k9", "k10", "k11">>,
     <<"k12", "k11", "k10", "k9", "k8", "k7", "k6", "k5", "k4", "k3", "k2">>}

EntityLists == {<<>>, <<"k2", "k1">>}

Rows ==
    [crawl_mode : Modes, third_party_domains : DomainLists, tracker_entities : EntityLists]

PrevalenceStart ==
    /\ records \in SeqsUpTo(Rows, MaxRecords)
    /\ mode_param \in Modes
    /\ target \in Columns
    /\ prevalence_call = [pc |-> "line476", third_parties |-> <<>>,
                          third_parties_list |-> <<>>, counter_third_parties |-> <<>>,
                          top_ten |-> <<>>]

InitPrevalence ==
    /\ ClassifyIdle
    /\ ExtractIdle
    /\ LoaderIdle
    /\ CookiesIdle
    /\ ExpiryIdle
    /\ ConsentIdle
    /\ PrevalenceStart
    /\ PairsIdle
    /\ WorkersIdle
    /\ BatchIdle

\* line 476
SelectTarget ==
    /\ prevalence_call.pc = "line476"
    /\ prevalence_call' = [prevalence_call EXCEPT
            !.pc = "line478", !.third_parties = SeriesOf(records, mode_param, target)]
    /\ UNCHANGED <<exceptPrevalence, records, mode_param, target>>

\* line 478
FlattenTarget ==
    /\ prevalence_call.pc = "line478"
    /\ prevalence_call' = [prevalence_call EXCEPT
            !.pc = "line480", !.third_parties_list = Flatten(prevalence_call.third_parties)]
    /\ UNCHANGED <<exceptPrevalence, records, mode_param, target>>

\* line 480-482
CountTarget ==
    /\ prevalence_call.pc = "line480"
    /\ prevalence_call' = [prevalence_call EXCEPT
            !.pc = "returned",
            !.counter_third_parties = CounterOf(prevalence_call.third_parties_list)]
    /\ UNCHANGED <<exceptPrevalence, records, mode_param, target>>

\* line 543: .most_common(10) on what prevalence returned
TakeMostCommon ==
    /\ prevalence_call.pc = "returned"
    /\ prevalence_call' = [prevalence_call EXCEPT
            !.pc = "ranked",
            !.top_ten = MostCommon(prevalence_call.counter_third_parties, TopTen)]
    /\ UNCHANGED <<exceptPrevalence, records, mode_param, target>>

NextPrevalence == SelectTarget \/ FlattenTarget \/ CountTarget \/ TakeMostCommon

SpecPrevalence == InitPrevalence /\ [][NextPrevalence]_vars

\* the places (row, position) where a key stands in the target column of the
\* rows of the mode
Occurrences(key) ==
    UNION {{<<i, j>> : j \in {q \in 1..Len(records[i][target]) : records[i][target][q] = key}} :
            i \in {r \in 1..Len(records) : records[r].crawl_mode = mode_param}}

Returned_ == prevalence_call.pc \in {"returned", "ranked"}

\* C16: the table prevalence returns holds, for each key that occurs in the
\* target column of the rows of the mode, one item with the number of its
\* occurrences there, and no item for any other key; no rows, no items.
C16_CountsOccurrences ==
    Returned_ =>
        LET counter == prevalence_call.counter_third_parties
        IN  /\ \A key \in Keys :
                    LET items == {i \in 1..Len(counter) : counter[i][1] = key}
                    IN  IF Occurrences(key) = {} THEN items = {}
                        ELSE /\ Cardinality(items) = 1
                             /\ \A i \in items :
                                    counter[i][2] = Cardinality(Occurrences(key))
            /\ \A i \in 1..Len(counter) : counter[i][1] \in Keys
            /\ records = <<>> => counter = <<>>

\* C16 witness: a key counted twice in a row of the mode, next to a row of
\* the other mode that holds keys.
C16_Witness ==
    /\ Returned_
    /\ \E i \in 1..Len(prevalence_call.counter_third_parties) :
            prevalence_call.counter_third_parties[i][2] = 2
    /\ \E i \in 1..Len(records) :
            records[i].crawl_mode # mode_param /\ records[i][target] # <<>>

\* the position at which a key is first met in the flattened column
FirstMet(key) ==
    Min({j \in 1..Len(prevalence_call.third_parties_list) :
            prevalence_call.third_parties_list[j] = key})

\* item a ranks before item b: a larger count, or the same and met earlier
RanksBefore(a, b) ==
    a[2] > b[2] \/ (a[2] = b[2] /\ FirstMet(a[1]) < FirstMet(b[1]))

\* C17: the ranked list is in non-increasing order of count with keys of
\* equal count in the order they were first met, and it is the head of that
\* order: ten items, or all of them when there are fewer.
C17_RankedStable ==
    prevalence_call.pc = "ranked" =>
        LET top == prevalence_call.top_ten
            counter == prevalence_call.counter_third_parties
        IN  /\ \A a, b \in 1..Len(top) : a < b => RanksBefore(top[a], top[b])
            /\ Len(top) = IF Len(counter) < TopTen THEN Len(counter) ELSE TopTen
            /\ \A a \in 1..Len(top) : \E i \in 1..Len(counter) : counter[i] = top[a]
            /\ \A i \in 1..Len(counter) :
                    (\A a \in 1..Len(top) : top[a] # counter[i]) =>
                        \A a \in 1..Len(top) : RanksBefore(top[a], counter[i])

\* C17 witness: more than ten keys, the last of the ten tied with a key that
\* is left out.
C17_Witness ==
    /\ prevalence_call.pc = "ranked"
    /\ Len(prevalence_call.top_ten) = TopTen
    /\ \E i \in 1..Len(prevalence_call.counter_third_parties) :
            /\ \A a \in 1..TopTen :
                    prevalence_call.top_ten[a] # prevalence_call.counter_third_parties[i]
            /\ prevalence_call.counter_third_parties[i][2] = prevalence_call.top_ten[TopTen][2]
    /\ prevalence_call.top_ten[1][2] > prevalence_call.top_ten[TopTen][2]

(***************************************************************************)
(* top_ten_tracker_redirection_pairs (analyse.py 894-919).  A pair is      *)
(* <<source, target>>, each a domain.                                      *)
(***************************************************************************)
\* line 916: domain_in_blocklist(tracker_domains, p[0])[1] or
\* domain_in_blocklist(tracker_domains, p[1])[1]
IsTrackerPairMutBoth(index, pair) ==
    domain_in_blocklist(index, pair[1])[2] /\ domain_in_blocklist(index, pair[2])[2]

IsTrackerPair(index, pair) ==
    domain_in_blocklist(index, pair[1])[2] \/ domain_in_blocklist(index, pair[2])[2]

\* line 916: the pairs of the list that involve a tracker
TrackerPairs(index, pairs_tuples) ==
    LET Involves(pair) == IsTrackerPair(index, pair) IN SelectSeq(pairs_tuples, Involves)

Host(name) == <<name, "com">>

SubHost(label, name) == <<label, name, "com">>

\* pairs that end at the tracker t.com or at a host below it
PairsToTracker ==
    <<(<<Host("a"), Host("t")>>), (<<Host("a"), SubHost("x", "t")>>),
      (<<Host("a"), SubHost("y", "t")>>), (<<Host("b"), Host("t")>>),
      (<<Host("b"), SubHost("x", "t")>>), (<<Host("b"), SubHost("y", "t")>>),
      (<<Host("c"), Host("t")>>), (<<Host("c"), SubHost("x", "t")>>),
      (<<Host("c"), SubHost("y", "t")>>), (<<Host("d"), Host("t")>>),
      (<<Host("d"), SubHost("x", "t")>>)>>

\* what a row may hold in redirection_pairs: nothing; one pair; a pair twice
\* and a pair between two other hosts; eleven pairs; a pair that starts at
\* the tracker, a pair between two other hosts and a twelfth pair
PairLists ==
    {<<>>,
     <<(<<Host("a"), Host("t")>>)>>,
     <<(<<Host("a"), Host("t")>>), (<<Host("a"), Host("t")>>), (<<Host("a"), Host("b")>>)>>,
     PairsToTracker,
     <<(<<Host("t"), Host("a")>>), (<<Host("a"), Host("b")>>),
       (<<Host("d"), SubHost("y", "t")>>)>>}

PairRows == [crawl_mode : Modes, redirection_pairs : PairLists]

TrackerIndexes == {{Host("t")}, {SubHost("x", "t")}, {}}

PairsStart ==
    /\ pair_records \in SeqsUpTo(PairRows, MaxRecords)
    /\ pair_mode \in Modes
    /\ known_trackers \in TrackerIndexes
    /\ pairs_call = [pc |-> "line912", pairs |-> <<>>, pairs_tuples |-> <<>>,
                     tracker_pairs |-> <<>>, top_ten_pairs |-> <<>>]

InitPairs ==
    /\ ClassifyIdle
    /\ ExtractIdle
    /\ LoaderIdle
    /\ CookiesIdle
    /\ ExpiryIdle
    /\ ConsentIdle
    /\ PrevalenceIdle
    /\ PairsStart
    /\ WorkersIdle
    /\ BatchIdle

\* line 912
SelectPairs ==
    /\ pairs_call.pc = "line912"
    /\ pairs_call' = [pairs_call EXCEPT
            !.pc = "line914",
            !.pairs = SeriesOf(pair_records, pair_mode, "redirection_pairs")]
    /\ UNCHANGED <<exceptPairs, pair_records, pair_mode, known_trackers>>

\* line 914
FlattenPairs ==
    /\ pairs_call.pc = "line914"
    /\ pairs_call' = [pairs_call EXCEPT
            !.pc = "line916", !.pairs_tuples = Flatten(pairs_call.pairs)]
    /\ UNCHANGED <<exceptPairs, pair_records, pair_mode, known_trackers>>

\* line 916
FilterTrackerPairs ==
    /\ pairs_call.pc = "line916"
    /\ pairs_call' = [pairs_call EXCEPT
            !.pc = "line917",
            !.tracker_pairs = TrackerPairs(known_trackers, pairs_call.pairs_tuples)]
    /\ UNCHANGED <<exceptPairs, pair_records, pair_mode, known_trackers>>

\* line 917-919
CountTopTenPairs ==
    /\ pairs_call.pc = "line917"
    /\ pairs_call' = [pairs_call EXCEPT
            !.pc = "returned",
            !.top_ten_pairs = MostCommon(CounterOf(pairs_call.tracker_pairs), TopTen)]
    /\ UNCHANGED <<exceptPairs, pair_records, pair_mode, known_trackers>>

NextPairs == SelectPairs \/ FlattenPairs \/ FilterTrackerPairs \/ CountTopTenPairs

SpecPairs == InitPairs /\ [][NextPairs]_vars

\* the places (row, position) where a pair stands in the rows of the mode
PairOccurrences(pair) ==
    UNION {{<<i, j>> : j \in {q \in 1..Len(pair_records[i].redirection_pairs) :
                                pair_records[i].redirection_pairs[q] = pair}} :
            i \in {r \in 1..Len(pair_records) : pair_records[r].crawl_mode = pair_mode}}

\* the pairs of the rows of the mode of which an end is a tracker
InvolvingTracker ==
    {pair \in UNION {Range(list) : list \in PairLists} :
        /\ PairOccurrences(pair) # {}
        /\ \/ domain_in_blocklist(known_trackers, pair[1])[2]
           \/ domain_in_blocklist(known_trackers, pair[2])[2]}

\* C18: the list returned holds only pairs of the rows of the mode with a
\* tracker at an end, each once and with the number of its occurrences; it
\* holds all of them when they are ten or fewer and ten of them otherwise,
\* and no pair left out has a higher count than a pair of the list.
C18_TopTrackerPairs ==
    pairs_call.pc = "returned" =>
        LET top == pairs_call.top_ten_pairs
        IN  /\ \A a \in 1..Len(top) :
                    /\ top[a][1] \in InvolvingTracker
                    /\ top[a][2] = Cardinality(PairOccurrences(top[a][1]))
            /\ \A a, b \in 1..Len(top) : a # b => top[a][1] # top[b][1]
            /\ Len(top) = IF Cardinality(InvolvingTracker) < TopTen
                          THEN Cardinality(InvolvingTracker) ELSE TopTen
            /\ \A pair \in InvolvingTracker :
                    (\A a \in 1..Len(top) : top[a][1] # pair) =>
                        \A a \in 1..Len(top) :
                            top[a][2] >= Cardinality(PairOccurrences(pair))

\* C18 witness: more than ten pairs with a tracker at an end, one of them
\* starting at the tracker, and a pair of the mode without a tracker.
C18_Witness ==
    /\ pairs_call.pc = "returned"
    /\ Cardinality(InvolvingTracker) > TopTen
    /\ \E pair \in InvolvingTracker : pair[1] \in known_trackers
    /\ \E i \in 1..Len(pairs_call.pairs_tuples) :
            pairs_call.pairs_tuples[i] \notin InvolvingTracker

\* the rows of the mode in which the pair was observed
RowsObserving(pair) == {place[1] : place \in PairOccurrences(pair)}

\* C19: the count reported for a pair is the number of rows of the mode in
\* which the pair was observed, however often it occurs inside one row.
C19_CountsRows ==
    pairs_call.pc = "returned" =>
        \A a \in 1..Len(pairs_call.top_ten_pairs) :
            pairs_call.top_ten_pairs[a][2] =
                Cardinality(RowsObserving(pairs_call.top_ten_pairs[a][1]))

(***************************************************************************)
(* Workers that call domain_in_blocklist, extract_tracker_domains_entities,*)
(* prevalence and top_ten_tracker_redirection_pairs on one blocklist index *)
(* and one set of visit records, a statement at a time and in any          *)
(* interleaving.                                                           *)
(***************************************************************************)
MaxCalls == 2

Workers == {1, 2}

SharedRecords ==
    <<[crawl_mode |-> "Desktop",
       third_party_domains |-> <<SubHost("x", "t"), Host("a")>>,
       redirection_pairs |-> <<(<<Host("a"), SubHost("x", "t")>>),
                               (<<Host("a"), SubHost("x", "t")>>),
                               (<<Host("a"), Host("b")>>)>>],
      [crawl_mode |-> "Mobile",
       third_party_domains |-> <<Host("t")>>,
       redirection_pairs |-> <<(<<Host("t"), Host("a")>>)>>]>>

SharedBlocklists ==
    {[d \in {Host("t")} |-> "E1"],
     [d \in {Host("t"), SubHost("y", "t")} |-> IF d = Host("t") THEN "E1" ELSE "E2"]}

\* the calls a worker may make: the function and its argument next to the
\* index and the records (a domain, a row, a mode)
CallKinds ==
    {<<"domain_in_blocklist", SubHost("x", "t")>>,
     <<"domain_in_blocklist", Host("a")>>,
     <<"extract_tracker_domains_entities", <<"row", "1">>>>,
     <<"prevalence", <<"Desktop">>>>,
     <<"top_ten_tracker_redirection_pairs", <<"Desktop">>>>}

NoCall == [pc |-> "idle"]

StartCall(kind) ==
    [pc |-> "running", fn |-> kind[1], arg |-> kind[2], at |-> 1,
     local |-> IF kind[1] = "domain_in_blocklist" THEN <<StartFrame(kind[2])>> ELSE <<>>,
     result |-> <<>>, overlapped |-> FALSE]

Finish(call, value) == [call EXCEPT !.pc = "returned", !.result = value]

Proceed(call, value) ==
    [call EXCEPT !.at = call.at + 1, !.local = Append(call.local, value)]

\* the next statement of a call, on the index and the records as they are now
AdvanceCall(sh, call) ==
    CASE call.fn = "domain_in_blocklist" ->
            LET f == Step(sh.blocklist_domains, call.local[1])
            IN  IF Running(f) THEN [call EXCEPT !.at = call.at + 1, !.local = <<f>>]
                ELSE Finish(call, f.result)
      [] call.fn = "extract_tracker_domains_entities" ->
            LET observed == sh.records[1].third_party_domains
            IN  CASE call.at = 1 ->
                        Proceed(call, MatchedDomains(observed, sh.blocklist_domains))
                  [] call.at = 2 ->
                        Proceed(call, TrackerDomains(observed, sh.blocklist_domains))
                  [] OTHER ->
                        Finish(call, <<call.local[2],
                                       TrackerEntities(sh.blocklist, call.local[1]).value>>)
      [] call.fn = "prevalence" ->
            CASE call.at = 1 ->
                    Proceed(call, SeriesOf(sh.records, call.arg[1], "third_party_domains"))
              [] call.at = 2 -> Proceed(call, Flatten(call.local[1]))
              [] OTHER -> Finish(call, CounterOf(call.local[2]))
      [] OTHER ->
            CASE call.at = 1 ->
                    Proceed(call, SeriesOf(sh.records, call.arg[1], "redirection_pairs"))
              [] call.at = 2 -> Proceed(call, Flatten(call.local[1]))
              [] call.at = 3 ->
                    Proceed(call, TrackerPairs(sh.blocklist_domains, call.local[2]))
              [] OTHER -> Finish(call, MostCommon(CounterOf(call.local[3]), TopTen))

\* what a statement of a call leaves of the index and the records: none of
\* the four functions assigns to, or calls a mutating method of, what it is
\* given (analyse.py 62-79, 104-108, 476-480, 912-917)
SharedAfterStatementMutRemember(sh, call) ==
    IF call.fn = "domain_in_blocklist"
    THEN [sh EXCEPT !.blocklist_domains = sh.blocklist_domains \cup {call.arg}]
    ELSE sh

SharedAfterStatement(sh, call) == sh

WorkersStart ==
    /\ \E dict \in SharedBlocklists :
            shared = [blocklist |-> dict, blocklist_domains |-> DOMAIN dict,
                      records |-> SharedRecords]
    /\ workers = [w \in Workers |-> NoCall]
    /\ log = <<>>

InitWorkers ==
    /\ ClassifyIdle
    /\ ExtractIdle
    /\ LoaderIdle
    /\ CookiesIdle
    /\ ExpiryIdle
    /\ ConsentIdle
    /\ PrevalenceIdle
    /\ PairsIdle
    /\ WorkersStart
    /\ BatchIdle

Busy(w) == workers[w].pc = "running"

\* the calls begun so far
Begun == Len(log) + Cardinality({w \in Workers : Busy(w)})

\* a worker enters one of the functions
BeginCall ==
    /\ Begun < MaxCalls
    /\ \E w \in Workers, kind \in CallKinds :
            /\ ~Busy(w)
            /\ workers' =
                    [v \in Workers |->
                        IF v = w
                        THEN [StartCall(kind) EXCEPT !.overlapped = \E u \in Workers : Busy(u)]
                        ELSE IF Busy(v) THEN [workers[v] EXCEPT !.overlapped = TRUE]
                        ELSE workers[v]]
    /\ UNCHANGED <<exceptWorkers, shared, log>>

\* a worker runs the next statement of its call; the statement that returns
\* hands the result to the caller
RunStatement ==
    \E w \in Workers :
        /\ Busy(w)
        /\ shared' = SharedAfterStatement(shared, workers[w])
        /\ LET call == AdvanceCall(shared, workers[w])
           IN  IF call.pc = "returned"
               THEN /\ workers' = [workers EXCEPT ![w] = NoCall]
                    /\ log' = Append(log, [fn |-> call.fn, arg |-> call.arg,
                                           result |-> call.result,
                                           overlapped |-> call.overlapped])
               ELSE /\ workers' = [workers EXCEPT ![w] = call]
                    /\ UNCHANGED log
        /\ UNCHANGED exceptWorkers

NextWorkers == BeginCall \/ RunStatement

SpecWorkers == InitWorkers /\ [][NextWorkers]_vars

C22_NeverBareSuffix ==
    (frame.pc = "returned" /\ Len(domain_arg) >= 2 /\ frame.result[2] = TRUE) =>
        Len(frame.result[1]) >= 2

\* the leading parts of d: its first k labels, k = 1 .. Len(d)-1
Prefixes(d) == {SubSeq(d, 1, k) : k \in 1..(Len(d) - 1)}

\* An index that holds, next to a whole-label suffix of the argument or none,
\* a domain that starts like the argument does, or none.
ClassifyAnyStart ==
    /\ domain_arg \in Domains
    /\ \E x \in Suffixes(domain_arg) \cup {None}, y \in Prefixes(domain_arg) \cup {None} :
            tracker_domains = {x, y} \ {None, EmptyString}
    /\ frame = StartFrame(domain_arg)

InitClassifyAny ==
    /\ ClassifyAnyStart
    /\ ExtractIdle
    /\ LoaderIdle
    /\ CookiesIdle
    /\ OthersIdle

SpecClassifyAny == InitClassifyAny /\ [][NextClassify]_vars

\* C24: whenever the call returns (s, True), s is a member of the index and
\* s is the argument itself or what follows one of its dots (a whole-label
\* suffix of the argument).
C24_MatchIsMemberSuffix ==
    (frame.pc = "returned" /\ frame.result[2] = TRUE) =>
        /\ frame.result[1] \in tracker_domains
        /\ frame.result[1] \in Suffixes(domain_arg)

\* C24 witness: a proper suffix was returned from an index that also holds
\* a leading part of the argument that is no suffix of it.
C24_Witness ==
    /\ frame.pc = "returned"
    /\ frame.result[2] = TRUE
    /\ frame.result[1] # domain_arg
    /\ \E y \in tracker_domains : y \in Prefixes(domain_arg) \ Suffixes(domain_arg)

(***************************************************************************)
(* A further claim about extract_tracker_domains_entities, checked under   *)
(* SpecExtract.                                                            *)
(***************************************************************************)
\* C25: the tracker domains returned for a visit are among its observed
\* third-party domains, and there are no more tracker entities than tracker
\* domains, and no more tracker domains than third-party domains recorded
\* (the lengths written to the row at line 182-188).
C25_SubsetAndCounts ==
    extract.pc = "returned" =>
        /\ extract.tracker_domains \subseteq Range(third_party_domains)
        /\ Cardinality(extract.tracker_entities) <= Cardinality(extract.tracker_domains)
        /\ Cardinality(extract.tracker_domains) <= Len(third_party_domains)

\* C25 witness: two observed domains are trackers, one of them through a
\* shorter suffix, and both belong to one entity.
C25_Witness ==
    /\ extract.pc = "returned"
    /\ Cardinality(extract.tracker_domains) = 2
    /\ Cardinality(extract.tracker_entities) = 1
    /\ \E d \in extract.tracker_domains : d \notin blocklist_domains

(***************************************************************************)
(* A further claim about find_cookies_longest_lifespans, checked under     *)
(* SpecRanking, where every cookie that has a lifespan has one that parses *)
(* and number is one of the ranks generate_table_question_10 asks for.     *)
(***************************************************************************)
\* the cookies of the partition that have a lifespan
WithLifespan == {k \in 1..Len(Positions) : HasLifespan(CookieOf(k))}

\* C26: when no cookie of the partition fails to parse, the call returns a
\* cookie if and only if number + 1 cookies or more of the partition have a
\* lifespan, and the cookie is one of those; with fewer, and with no cookie
\* at all, it ends in IndexError.
C26_ReturnsIffEnoughCookies ==
    (ranking.pc \in {"returned", "raised"} /\ ranking.exc # "ValueError") =>
        /\ ranking.pc = "returned" <=> Cardinality(WithLifespan) >= number_arg + 1
        /\ ranking.pc = "returned" =>
                \E k \in WithLifespan : ranking.result[1] = CookieOf(k)
        /\ ranking.pc = "raised" => ranking.exc = "IndexError"

\* C26 witness: the third of three cookies with a lifespan was asked for and
\* returned.
C26_Witness ==
    /\ ranking.pc = "returned"
    /\ number_arg = TopCount - 1
    /\ Cardinality(WithLifespan) = TopCount

(***************************************************************************)
(* allow_cookies with the wait of line 107-115 as two steps: the call of   *)
(* WebDriverWait(driver, 0.1).until(...) and its end, by an element or by  *)
(* an exception (TimeoutException after the 0.1 seconds).                  *)
(***************************************************************************)
ProbesStart ==
    /\ accept_words \in SeqsUpTo(Phrases, MaxWords)
    /\ consent = [pc |-> "line104", word |-> 1, allow_all_cookies |-> 0,
                  probes |-> <<>>, clicks |-> <<>>, result |-> FALSE, exc |-> "",
                  events |-> <<>>]

InitProbes ==
    /\ ClassifyIdle
    /\ ExtractIdle
    /\ LoaderIdle
    /\ CookiesIdle
    /\ ExpiryIdle
    /\ ProbesStart
    /\ PrevalenceIdle
    /\ PairsIdle
    /\ WorkersIdle
    /\ BatchIdle

\* line 104-107: the next word of the loop, and the wait for it is entered
BeginWait ==
    /\ consent.pc = "line104"
    /\ consent.word <= Len(accept_words)
    /\ consent' = [consent EXCEPT !.pc = "line107",
                                  !.events = Append(consent.events, <<"start", consent.word>>)]
    /\ UNCHANGED <<exceptConsent, accept_words>>

\* line 107-120: the wait ends, and the loop goes on to line 120
EndWait ==
    /\ consent.pc = "line107"
    /\ \E outcome \in ProbeOutcomes :
            consent' = [AfterProbe([consent EXCEPT !.pc = "line104"], outcome) EXCEPT
                            !.events = Append(consent.events, <<"end", consent.word>>)]
    /\ UNCHANGED <<exceptConsent, accept_words>>

NextProbes == BeginWait \/ EndWait \/ Click \/ ReturnFalse

\* the interpreter goes on running the call, and every wait ends: until()
\* returns or raises when its 0.1 seconds are over
SpecProbes == InitProbes /\ [][NextProbes]_vars /\ WF_vars(NextProbes)

\* the events at which a wait was entered
Starts == {i \in 1..Len(consent.events) : consent.events[i][1] = "start"}

\* C23: every word of the list is probed once at most, also after a timeout
\* or a failure; a probe starts only when the probe before it has ended; the
\* probes are never more than the words; and the call ends.
C23_ProbesOnceInTurn ==
    /\ [](\A i, j \in Starts : i # j => consent.events[i][2] # consent.events[j][2])
    /\ [](\A i \in 1..Len(consent.events) :
            IF i % 2 = 1 THEN consent.events[i][1] = "start"
            ELSE consent.events[i] = <<"end", consent.events[i - 1][2]>>)
    /\ [](Cardinality(Starts) <= Len(accept_words))
    /\ <>Ended

\* C23 witness: the call has ended after two probes or more, the first of
\* which timed out.
C23_Witness ==
    /\ Ended
    /\ Cardinality(Starts) >= 2
    /\ consent.probes[1].outcome = "TimeoutException"
    /\ consent.events[2] = <<"end", 1>>

(***************************************************************************)
(* write_data_to_dataframe (analyse.py 136-198) on the JSON documents of   *)
(* ../crawl_data.  A document is the set of its keys; the value it holds   *)
(* under a key is written <<i, key>> for the i-th document, and so is what *)
(* the function computes for a column of the row.                          *)
(***************************************************************************)
MaxFiles == 3

\* line 164: if len(json_file) == 4
ErrorLength == 4

\* line 165-168, in the order the list display reads them
ErrorItems ==
    <<(<<"website_domain", "website_domain">>), (<<"tranco_rank", "tranco_rank">>),
      (<<"crawl_mode", "crawl_mode">>), (<<"error", "error">>)>>

\* line 170-172: the keys read for the arguments of
\* extract_tracker_domains_entities and calculate_page_load_time
ArgumentReads == <<"third_party_domains", "pageload_start_ts", "pageload_end_ts">>

\* line 173-190: the columns of the row and the key each reads ("" where the
\* entry is computed from what was read before)
DataItems ==
    <<(<<"website_domain", "website_domain">>), (<<"tranco_rank", "tranco_rank">>),
      (<<"crawl_mode", "crawl_mode">>), (<<"pageload_start_ts", "pageload_start_ts">>),
      (<<"pageload_end_ts", "pageload_end_ts">>), (<<"page_load_time", "">>),
      (<<"post_pageload_url", "post_pageload_url">>),
      (<<"consent_status", "consent_status">>), (<<"cookies", "cookies">>),
      (<<"third_party_domains", "third_party_domains">>),
      (<<"nr_third_party_domains", "third_party_domains">>),
      (<<"requests", "requests">>), (<<"nr_requests", "requests">>),
      (<<"tracker_domains", "">>), (<<"nr_tracker_domains", "">>),
      (<<"tracker_entities", "">>), (<<"nr_tracker_entities", "">>),
      (<<"redirection_pairs", "redirect_pairs">>)>>

\* the list display [json_file[...], ...]: the entries are evaluated left to
\* right and a key the document lacks raises KeyError where it is read
RECURSIVE ListDisplay(_, _, _, _)
ListDisplay(i, keys, items, built) ==
    IF items = <<>> THEN [raised |-> FALSE, value |-> built]
    ELSE IF Head(items)[2] # "" /\ Head(items)[2] \notin keys
    THEN [raised |-> TRUE, value |-> built]
    ELSE ListDisplay(i, keys, Tail(items), Append(built, <<i, Head(items)[1]>>))

\* line 191-192: except KeyError: print(...)
OnKeyErrorMutPartial(b, i, built) ==
    [b EXCEPT !.data = Append(b.data, built), !.printed = Append(b.printed, i)]

OnKeyError(b, i, built) == [b EXCEPT !.printed = Append(b.printed, i)]

\* line 161-192: the try statement for the i-th document
LoopBody(b, i, keys) ==
    IF Cardinality(keys) = ErrorLength
    THEN LET row == ListDisplay(i, keys, ErrorItems, <<>>)
         IN  IF row.raised THEN OnKeyError(b, i, row.value)
             ELSE [b EXCEPT !.errors = Append(b.errors, row.value)]
    ELSE IF \E k \in 1..Len(ArgumentReads) : ArgumentReads[k] \notin keys
    THEN OnKeyError(b, i, <<>>)
    ELSE LET row == ListDisplay(i, keys, DataItems, <<>>)
         IN  IF row.raised THEN OnKeyError(b, i, row.value)
             ELSE [b EXCEPT !.data = Append(b.data, row.value)]

ErrorKeys == {ErrorItems[k][2] : k \in 1..Len(ErrorItems)}

DataKeys == {DataItems[k][2] : k \in 1..Len(DataItems)} \ {""}

\* the documents of the model: a visit, a visit that also holds an error, a
\* failed visit, and documents that lack keys
DocumentPool ==
    {DataKeys,
     DataKeys \cup {"error"},
     ErrorKeys,
     DataKeys \ {"third_party_domains"},
     DataKeys \ {"pageload_end_ts"},
     DataKeys \ {"website_domain"},
     DataKeys \ {"redirect_pairs"},
     {"website_domain", "tranco_rank", "crawl_mode", "cookies"},
     ErrorKeys \ {"tranco_rank"},
     ErrorKeys \cup {"cookies"},
     {}}

BatchStart ==
    /\ files \in SeqsUpTo(DocumentPool, MaxFiles)
    /\ batch = [pc |-> "line159", next |-> 1, data |-> <<>>, errors |-> <<>>,
                printed |-> <<>>]

InitBatch ==
    /\ ClassifyIdle
    /\ ExtractIdle
    /\ LoaderIdle
    /\ CookiesIdle
    /\ ExpiryIdle
    /\ ConsentIdle
    /\ PrevalenceIdle
    /\ PairsIdle
    /\ WorkersIdle
    /\ BatchStart

\* line 159-192: one pass of the loop over the files
ReadFile ==
    /\ batch.pc = "line159"
    /\ batch.next <= Len(files)
    /\ batch' = [LoopBody(batch, batch.next, files[batch.next]) EXCEPT
                    !.next = batch.next + 1]
    /\ UNCHANGED <<exceptBatch, files>>

\* line 195-198
ReturnDataframes ==
    /\ batch.pc = "line159"
    /\ batch.next > Len(files)
    /\ batch' = [batch EXCEPT !.pc = "returned"]
    /\ UNCHANGED <<exceptBatch, files>>

NextBatch == ReadFile \/ ReturnDataframes

SpecBatch == InitBatch /\ [][NextBatch]_vars

\* the fields the code reads of a document of this length
RequiredFields(keys) ==
    IF Cardinality(keys) = ErrorLength THEN ErrorKeys ELSE DataKeys

LacksField(i) == ~(RequiredFields(files[i]) \subseteq files[i])

\* the documents the loop has been through
Read == 1..(batch.next - 1)

RowsOf(i) ==
    {k \in 1..Len(batch.data) : \E c \in 1..Len(batch.data[k]) : batch.data[k][c][1] = i}

ErrorRowsOf(i) ==
    {k \in 1..Len(batch.errors) :
        \E c \in 1..Len(batch.errors[k]) : batch.errors[k][c][1] = i}

\* C21: a document that lacks a field it needs adds no row, whole or
\* partial, to data or to errors; every document before or after it that
\* lacks none adds its one whole row; and the loop goes on to the last
\* document and the function returns.
C21_MalformedSkippedOnly ==
    /\ batch.pc \in {"line159", "returned"}
    /\ batch.pc = "returned" => Read = 1..Len(files)
    /\ \A k \in 1..Len(batch.data) : Len(batch.data[k]) = Len(DataItems)
    /\ \A k \in 1..Len(batch.errors) : Len(batch.errors[k]) = Len(ErrorItems)
    /\ \A i \in Read :
            IF LacksField(i)
            THEN RowsOf(i) = {} /\ ErrorRowsOf(i) = {}
            ELSE Cardinality(RowsOf(i)) + Cardinality(ErrorRowsOf(i)) = 1
    /\ Len(batch.data) + Len(batch.errors) = Cardinality({i \in Read : ~LacksField(i)})

\* C21 witness: the function has returned after a document that lacks its
\* last field, between a visit and a failed visit that each gave their row.
C21_Witness ==
    /\ batch.pc = "returned"
    /\ Len(files) = 3
    /\ files[2] = DataKeys \ {"redirect_pairs"}
    /\ batch.printed = <<2>>
    /\ Len(batch.data) = 1
    /\ Len(batch.errors) = 1

====
